---------------------------- MODULE Spec2Model ----------------------------
(***************************************************************************)
(* sqdesk-cli: the modal SQL editor (internal/tui/components/editor.go)    *)
(* and the concurrent completion engine (internal/completion).             *)
(*                                                                         *)
(* Strings are TLC strings; Len, SubSeq and \o work on them.  Offsets in   *)
(* the Go code are 0-based, SubSeq is 1-based: s[a:b] is SubSeq(s,a+1,b).  *)
(***************************************************************************)
EXTENDS Integers, Sequences, FiniteSets, TLC

VARIABLES
    editor,      \* components.Editor: textarea, selection, history, mode
    clipboard,   \* the system clipboard (github.com/atotto/clipboard)
    nkeys,       \* how many key events the editor has handled
    popup,       \* components.CompletionPopup: visible, items, selected
    engine,      \* completion.Engine: the sources slice header and the cache
    heap,        \* the backing arrays the sources slice has lived in
    reg,         \* the RegisterSource call in progress
    srcs,        \* the state of the sources: schema, history, AI
    req,         \* the Engine.Complete call in progress
    nreq         \* how many Complete calls have been made

editorVars == <<editor, clipboard, nkeys, popup>>
engineVars == <<engine, heap, reg, srcs, req, nreq>>
vars == <<editor, clipboard, nkeys, popup, engine, heap, reg, srcs, req, nreq>>

--------------------------------------------------------------------------
(* Bounds of the model. *)

\* how many key events a run of the editor handles
MaxKeys == 6
\* how many Complete calls a run of the engine makes
MaxRequests == 2

--------------------------------------------------------------------------
(* Go's strings package, as far as the code uses it. *)

Min(a, b) == IF a < b THEN a ELSE b
Max(a, b) == IF a > b THEN a ELSE b

\* s[a:b] with Go's 0-based half-open offsets
Slice(s, a, b) == SubSeq(s, a + 1, b)
\* s[i] as a one-character string
CharAt(s, i) == SubSeq(s, i + 1, i + 1)

HasPrefix(s, p) == Len(p) <= Len(s) /\ SubSeq(s, 1, Len(p)) = p
HasSuffix(s, p) == Len(p) <= Len(s) /\ SubSeq(s, Len(s) - Len(p) + 1, Len(s)) = p
Contains(s, p) == \E i \in 0..(Len(s) - Len(p)) : Slice(s, i, i + Len(p)) = p

\* strings.Split(s, "\n")
RECURSIVE SplitLines(_)
SplitLines(s) ==
    IF \A i \in 1..Len(s) : SubSeq(s, i, i) # "\n"
    THEN <<s>>
    ELSE LET i == CHOOSE j \in 1..Len(s) :
                    /\ SubSeq(s, j, j) = "\n"
                    /\ \A k \in 1..(j - 1) : SubSeq(s, k, k) # "\n"
         IN <<SubSeq(s, 1, i - 1)>> \o SplitLines(SubSeq(s, i + 1, Len(s)))

\* strings.Join(lines, "\n")
RECURSIVE JoinLines(_)
JoinLines(lines) ==
    IF Len(lines) = 0 THEN ""
    ELSE IF Len(lines) = 1 THEN lines[1]
    ELSE lines[1] \o "\n" \o JoinLines(Tail(lines))

LowerLetters == "abcdefghijklmnopqrstuvwxyz"
UpperLetters == "ABCDEFGHIJKLMNOPQRSTUVWXYZ"
Digits == "0123456789"

LowerSet == {SubSeq(LowerLetters, i, i) : i \in 1..26}
UpperSet == {SubSeq(UpperLetters, i, i) : i \in 1..26}
DigitSet == {SubSeq(Digits, i, i) : i \in 1..10}
UpperOf == [c \in LowerSet |->
               SubSeq(UpperLetters, CHOOSE j \in 1..26 : SubSeq(LowerLetters, j, j) = c,
                      CHOOSE j \in 1..26 : SubSeq(LowerLetters, j, j) = c)]
LowerOf == [c \in UpperSet |->
               SubSeq(LowerLetters, CHOOSE j \in 1..26 : SubSeq(UpperLetters, j, j) = c,
                      CHOOSE j \in 1..26 : SubSeq(UpperLetters, j, j) = c)]

IsLower(c) == c \in LowerSet
IsUpper(c) == c \in UpperSet
IsDigit(c) == c \in DigitSet
\* unicode.IsSpace, for the characters the model types
IsSpace(c) == c \in {" ", "\n", "\t"}

UpperChar(c) == IF IsLower(c) THEN UpperOf[c] ELSE c
LowerChar(c) == IF IsUpper(c) THEN LowerOf[c] ELSE c

\* strings.ToUpper, strings.ToLower: character by character from offset i on
RECURSIVE UpperFrom(_, _)
UpperFrom(s, i) ==
    IF i > Len(s) THEN "" ELSE UpperChar(SubSeq(s, i, i)) \o UpperFrom(s, i + 1)
ToUpper(s) == UpperFrom(s, 1)
RECURSIVE LowerFrom(_, _)
LowerFrom(s, i) ==
    IF i > Len(s) THEN "" ELSE LowerChar(SubSeq(s, i, i)) \o LowerFrom(s, i + 1)
ToLower(s) == LowerFrom(s, 1)

\* strings.TrimSpace: from the first to the last character that is no space
TrimLeft(s) ==
    LET keep == {i \in 1..Len(s) : ~IsSpace(SubSeq(s, i, i))}
    IN IF keep = {} THEN ""
       ELSE SubSeq(s, CHOOSE i \in keep : \A j \in keep : i <= j, Len(s))
TrimRight(s) ==
    LET keep == {i \in 1..Len(s) : ~IsSpace(SubSeq(s, i, i))}
    IN IF keep = {} THEN ""
       ELSE SubSeq(s, 1, CHOOSE i \in keep : \A j \in keep : i >= j)
TrimSpace(s) == TrimRight(TrimLeft(s))

\* the last element of strings.Fields(s), "" when there is none
LastField(s) ==
    LET t == TrimRight(s)
        RECURSIVE Start(_)
        Start(i) == IF i > 0 /\ ~IsSpace(SubSeq(t, i, i)) THEN Start(i - 1) ELSE i
    IN SubSeq(t, Start(Len(t)) + 1, Len(t))

--------------------------------------------------------------------------
(* The textarea the editor wraps (charmbracelet/bubbles textarea.Model):   *)
(* rows of text and a cursor (row, col).  The model keeps the rows joined  *)
(* by "\n" in value, as Value() returns them.                              *)

\* offset of the first character of line r (0-based) of v
LineStart(v, r) ==
    LET lines == SplitLines(v)
        RECURSIVE Sum(_)
        Sum(i) == IF i = 0 THEN 0 ELSE Sum(i - 1) + Len(lines[i]) + 1
    IN Sum(Min(r, Len(lines)))

\* textarea.Value()
taValue(ta) == ta.value
\* textarea.Line()
taLine(ta) == ta.row
\* the text of the cursor's row
taRowText(ta) == SplitLines(ta.value)[ta.row + 1]
\* number of rows
taRows(ta) == Len(SplitLines(ta.value))

\* textarea.SetCursor(col): the column, clamped to the cursor's row
taSetCursor(ta, c) == [ta EXCEPT !.col = Max(0, Min(c, Len(taRowText(ta))))]
\* textarea.CursorStart()
taCursorStart(ta) == taSetCursor(ta, 0)
\* textarea.CursorEnd()
taCursorEnd(ta) == taSetCursor(ta, Len(taRowText(ta)))

\* textarea.SetValue(s): Reset() then InsertString(s); the cursor ends after
\* the last character
taSetValue(ta, s) ==
    LET lines == SplitLines(s)
    IN [value |-> s, row |-> Len(lines) - 1, col |-> Len(lines[Len(lines)])]

\* the linear offset of the textarea cursor
taOffset(ta) == LineStart(ta.value, ta.row) + ta.col

\* the (row, col) of linear offset idx in v
taAt(v, idx) ==
    LET before == SplitLines(Slice(v, 0, idx))
    IN [value |-> v, row |-> Len(before) - 1, col |-> Len(before[Len(before)])]

\* textarea.InsertString(s) and typed runes: insert at the cursor, cursor after
taInsertString(ta, s) ==
    LET idx == taOffset(ta)
    IN taAt(Slice(ta.value, 0, idx) \o s \o Slice(ta.value, idx, Len(ta.value)),
            idx + Len(s))

\* textarea.CursorDown(): one row down, unless on the last row.  The column
\* it picks is overwritten by every caller modelled here.
taCursorDown(ta) ==
    IF ta.row < taRows(ta) - 1
    THEN LET t == [ta EXCEPT !.row = ta.row + 1] IN taSetCursor(t, ta.col)
    ELSE ta

\* textarea.CursorUp(): one row up, unless on the first row
taCursorUp(ta) ==
    IF ta.row > 0
    THEN LET t == [ta EXCEPT !.row = ta.row - 1] IN taSetCursor(t, ta.col)
    ELSE ta

\* KeyLeft: characterLeft(false)
taKeyLeft(ta) ==
    IF ta.col = 0 /\ ta.row # 0
    THEN taCursorEnd([ta EXCEPT !.row = ta.row - 1])
    ELSE IF ta.col > 0 THEN taSetCursor(ta, ta.col - 1) ELSE ta

\* KeyRight: characterRight()
taKeyRight(ta) ==
    IF ta.col < Len(taRowText(ta))
    THEN taSetCursor(ta, ta.col + 1)
    ELSE IF ta.row < taRows(ta) - 1
         THEN taCursorStart([ta EXCEPT !.row = ta.row + 1])
         ELSE ta

\* KeyDelete: delete the character under the cursor; at the end of a row,
\* join the row below
taKeyDelete(ta) ==
    LET idx == taOffset(ta)
        v == ta.value
    IN IF idx < Len(v)
       THEN [ta EXCEPT !.value = Slice(v, 0, idx) \o Slice(v, idx + 1, Len(v))]
       ELSE ta

\* KeyBackspace: delete the character before the cursor; at the start of a
\* row, join it to the row above
taKeyBackspace(ta) ==
    LET idx == taOffset(ta)
        v == ta.value
    IN IF idx > 0
       THEN taAt(Slice(v, 0, idx - 1) \o Slice(v, idx, Len(v)), idx - 1)
       ELSE ta

\* deleteWordLeft: the column the deletion starts at, for a cursor at oldCol
\* (> 0) of row text line
WordLeftCol(line, oldCol) ==
    LET RECURSIVE SkipSpace(_)
        SkipSpace(c) == IF IsSpace(CharAt(line, c)) /\ c > 0
                        THEN SkipSpace(c - 1) ELSE c
        RECURSIVE SkipWord(_)
        SkipWord(c) == IF c > 0
                       THEN IF ~IsSpace(CharAt(line, c)) THEN SkipWord(c - 1)
                            ELSE c + 1
                       ELSE c
    IN SkipWord(SkipSpace(Min(oldCol - 1, Len(line) - 1)))

\* alt+backspace: at column 0 join the row above, else deleteWordLeft()
taDeleteWordBackward(ta) ==
    IF ta.col <= 0 THEN taKeyBackspace(ta)
    ELSE IF Len(taRowText(ta)) = 0 THEN ta
    ELSE LET line == taRowText(ta)
             c == WordLeftCol(line, ta.col)
             start == LineStart(ta.value, ta.row)
             v == ta.value
         IN [value |-> Slice(v, 0, start + c) \o Slice(v, start + ta.col, Len(v)),
             row |-> ta.row, col |-> c]

--------------------------------------------------------------------------
(* components.Editor *)

ModeNormal == "Normal"
ModeInsert == "Insert"
ModeVisual == "Visual"

\* getCursorIndex: the linear index of the cursor, summed over the rows
\* before it
getCursorIndex(e) ==
    LET lines == SplitLines(taValue(e.ta))
        curLine == taLine(e.ta)
        RECURSIVE Sum(_)
        Sum(i) == IF i = 0 THEN 0 ELSE Sum(i - 1) + Len(lines[i]) + 1
    IN Sum(Min(curLine, Len(lines))) + e.ta.col

\* setCursorIndex: CursorStart, then CursorDown once per newline before idx
\* (from the row the cursor is on), then SetCursor(col)
setCursorIndex(e, idx0) ==
    LET val == taValue(e.ta)
        idx == IF idx0 > Len(val) THEN Len(val) ELSE idx0
        lines == SplitLines(Slice(val, 0, idx))
        line == Len(lines) - 1
        col == Len(lines[line + 1])
        RECURSIVE Down(_, _)
        Down(ta, n) == IF n = 0 THEN ta ELSE Down(taCursorDown(ta), n - 1)
    IN [e EXCEPT !.ta = taSetCursor(Down(taCursorStart(e.ta), line), col)]

\* snapshot as it would be without the truncation of the redo tail
snapshotKeepsRedoTail(e) ==
    LET current == [Text |-> taValue(e.ta), Cursor |-> getCursorIndex(e)]
        dup == /\ e.historyIndex >= 0
               /\ e.historyIndex < Len(e.history)
               /\ e.history[e.historyIndex + 1].Text = current.Text
    IN IF dup THEN e
       ELSE [e EXCEPT !.history = Append(e.history, current),
                      !.historyIndex = Len(e.history)]

\* snapshot: save (text, cursor) unless the text equals the current entry's;
\* drop the redo tail first
snapshot(e) ==
    LET current == [Text |-> taValue(e.ta), Cursor |-> getCursorIndex(e)]
        dup == /\ e.historyIndex >= 0
               /\ e.historyIndex < Len(e.history)
               /\ e.history[e.historyIndex + 1].Text = current.Text
        kept == IF e.historyIndex < Len(e.history) - 1
                THEN SubSeq(e.history, 1, e.historyIndex + 1)
                ELSE e.history
    IN IF dup THEN e
       ELSE [e EXCEPT !.history = Append(kept, current),
                      !.historyIndex = Len(kept)]

\* undo: step back one entry and restore it
undo(e) ==
    IF e.historyIndex > 0
    THEN LET state == e.history[e.historyIndex]
             e1 == [e EXCEPT !.historyIndex = e.historyIndex - 1,
                             !.ta = taSetValue(e.ta, state.Text)]
         IN setCursorIndex(e1, state.Cursor)
    ELSE e

\* redo: step forward one entry and restore it
redo(e) ==
    IF e.historyIndex < Len(e.history) - 1
    THEN LET state == e.history[e.historyIndex + 2]
             e1 == [e EXCEPT !.historyIndex = e.historyIndex + 1,
                             !.ta = taSetValue(e.ta, state.Text)]
         IN setCursorIndex(e1, state.Cursor)
    ELSE e

\* NewEditor: an empty focused textarea, no history, then the first snapshot.
\* panicked is not a field of the Go struct: it records that a handler hit a
\* slice-bounds runtime panic, which ends the program.
NewEditor ==
    snapshot([ta |-> [value |-> "", row |-> 0, col |-> 0],
              selectionStart |-> 0,
              selectionEnd |-> 0,
              hasSelection |-> FALSE,
              history |-> <<>>,
              historyIndex |-> -1,
              suggestion |-> "",
              mode |-> ModeNormal,
              panicked |-> FALSE,
              showLineNumbers |-> TRUE,
              softWrap |-> FALSE,
              searchMode |-> FALSE,
              searchQuery |-> "",
              searchMatches |-> <<>>,
              searchIndex |-> 0,
              replaceMode |-> FALSE,
              replaceQuery |-> "",
              gotoLineMode |-> FALSE,
              gotoLineInput |-> "",
              mouseDown |-> FALSE,
              mouseStart |-> 0])

\* Editor.GetValue, Editor.SetValue
GetValue(e) == taValue(e.ta)
SetValue(e, value) == [e EXCEPT !.ta = taSetValue(e.ta, value)]

\* Editor.GetCursorPosition: the rows before the cursor's row, then the
\* column (no row is wider than the textarea, so none is wrapped)
GetCursorPosition(e) ==
    LET lines == SplitLines(taValue(e.ta))
        RECURSIVE Sum(_)
        Sum(i) == IF i = 0 THEN 0 ELSE Sum(i - 1) + Len(lines[i]) + 1
    IN Sum(Min(taLine(e.ta), Len(lines))) + e.ta.col

\* isWordChar: an ASCII letter, a digit or '_'
isWordChar(c) == IsLower(c) \/ IsUpper(c) \/ IsDigit(c) \/ c = "_"

\* a ReplaceCurrentWord that inserts at the cursor without looking for the
\* start of the word
ReplaceCurrentWordAtCursor(e, text) ==
    LET value == taValue(e.ta)
        pos == Min(GetCursorPosition(e), Len(value))
    IN [e EXCEPT !.ta = taSetCursor(
                            taSetValue(e.ta, Slice(value, 0, pos) \o text
                                             \o Slice(value, pos, Len(value))),
                            pos + Len(text))]

\* Editor.ReplaceCurrentWord: the word characters before the cursor give way
\* to text; SetValue, then SetCursor(wordStart + len(text)) on the row the
\* cursor is left on
ReplaceCurrentWord(e, text) ==
    LET value == taValue(e.ta)
        pos == Min(GetCursorPosition(e), Len(value))
        RECURSIVE Start(_)
        Start(i) == IF i > 0 /\ isWordChar(CharAt(value, i - 1)) THEN Start(i - 1) ELSE i
        wordStart == Start(pos)
    IN [e EXCEPT !.ta = taSetCursor(
                            taSetValue(e.ta, Slice(value, 0, wordStart) \o text
                                             \o Slice(value, pos, Len(value))),
                            wordStart + Len(text))]

\* NewCompletionPopup, CompletionPopup.Show, MoveUp, MoveDown
NewCompletionPopup == [visible |-> FALSE, items |-> <<>>, selected |-> 0]
popupShow(items) == [visible |-> Len(items) > 0, items |-> items, selected |-> 0]
popupMoveUp(c) == IF c.selected > 0 THEN [c EXCEPT !.selected = @ - 1] ELSE c
popupMoveDown(c) ==
    IF c.selected < Len(c.items) - 1 THEN [c EXCEPT !.selected = @ + 1] ELSE c
\* CompletionPopup.GetSelected is not nil
popupHasSelected(c) == c.selected >= 0 /\ c.selected < Len(c.items)

\* selectAll
selectAll(e) ==
    [e EXCEPT !.mode = ModeVisual,
              !.selectionStart = 0,
              !.selectionEnd = Len(taValue(e.ta)),
              !.hasSelection = TRUE,
              !.ta = taSetCursor(e.ta, Len(taValue(e.ta)))]

\* GetSelectedText: the normalized, clamped selection, or the whole buffer
GetSelectedText(e) ==
    LET val == taValue(e.ta)
        lo == Min(e.selectionStart, e.selectionEnd)
        hi == Max(e.selectionStart, e.selectionEnd)
        start == Min(Max(lo, 0), Len(val))
        end == Min(hi, Len(val))
    IN IF e.hasSelection /\ start < end THEN Slice(val, start, end) ELSE val

\* deleteSelection: start is clamped below and end above, nothing else
deleteSelection(e) ==
    IF ~e.hasSelection THEN e
    ELSE LET val == taValue(e.ta)
             start == Max(Min(e.selectionStart, e.selectionEnd), 0)
             end == Min(Max(e.selectionStart, e.selectionEnd), Len(val))
             newVal == Slice(val, 0, start) \o Slice(val, end, Len(val))
             e1 == [e EXCEPT !.ta = taSetValue(e.ta, newVal)]
         IN IF start > Len(val)
            THEN [e EXCEPT !.panicked = TRUE]    \* val[:start] out of range
            ELSE [setCursorIndex(e1, start) EXCEPT !.hasSelection = FALSE]

\* copyToClipboard: what the clipboard holds afterwards
copyToClipboard(e, clip) ==
    IF GetSelectedText(e) # "" /\ e.hasSelection THEN GetSelectedText(e) ELSE clip

\* pasteFromClipboard, given what clipboard.ReadAll() returned
pasteFromClipboard(e, text, err) ==
    IF ~err /\ text # ""
    THEN LET e1 == IF e.hasSelection THEN deleteSelection(e) ELSE e
             e2 == snapshot(e1)
             e3 == [e2 EXCEPT !.ta = taInsertString(e2.ta, text)]
         IN snapshot(e3)
    ELSE e

\* cutToClipboard (the editor; the clipboard is copyToClipboard's)
cutToClipboard(e) ==
    IF e.hasSelection THEN snapshot(deleteSelection(snapshot(e))) ELSE e

\* moveLineUp
moveLineUp(e) ==
    LET lines == SplitLines(taValue(e.ta))
        curLine == taLine(e.ta)
    IN IF curLine > 0
       THEN LET swapped == [lines EXCEPT ![curLine + 1] = lines[curLine],
                                         ![curLine] = lines[curLine + 1]]
                t == taSetValue(e.ta, JoinLines(swapped))
            IN snapshot([e EXCEPT !.ta = taCursorUp(t)])
       ELSE e

\* moveLineDown
moveLineDown(e) ==
    LET lines == SplitLines(taValue(e.ta))
        curLine == taLine(e.ta)
    IN IF curLine < Len(lines) - 1
       THEN LET swapped == [lines EXCEPT ![curLine + 1] = lines[curLine + 2],
                                         ![curLine + 2] = lines[curLine + 1]]
                t == taSetValue(e.ta, JoinLines(swapped))
            IN snapshot([e EXCEPT !.ta = taCursorDown(t)])
       ELSE e

\* duplicateLine
duplicateLine(e) ==
    LET lines == SplitLines(taValue(e.ta))
        curLine == taLine(e.ta)
    IN IF curLine < Len(lines)
       THEN LET dup == SubSeq(lines, 1, curLine + 1) \o <<lines[curLine + 1]>>
                           \o SubSeq(lines, curLine + 2, Len(lines))
                t == taSetValue(e.ta, JoinLines(dup))
            IN snapshot([e EXCEPT !.ta = taCursorDown(t)])
       ELSE e

\* deleteLine
deleteLine(e) ==
    LET lines == SplitLines(taValue(e.ta))
        curLine == taLine(e.ta)
        cut == SubSeq(lines, 1, curLine) \o SubSeq(lines, curLine + 2, Len(lines))
        left == IF Len(cut) = 0 THEN <<"">> ELSE cut
        t == taSetValue(e.ta, JoinLines(left))
    IN snapshot([e EXCEPT !.ta = IF curLine >= Len(left) /\ curLine > 0
                                 THEN taCursorUp(t) ELSE t])

\* the editor's word lists, in the order updateSuggestion scans them
editorKeywords ==
    <<"SELECT", "FROM", "WHERE", "LIMIT", "OFFSET", "GROUP", "HAVING", "JOIN",
      "LEFT", "RIGHT", "INNER", "OUTER", "ON", "INSERT", "INTO", "VALUES",
      "UPDATE", "SET", "DELETE", "CREATE", "TABLE", "DROP", "ALTER", "INDEX",
      "VIEW", "AS", "DISTINCT", "UNION", "ALL", "CASE", "WHEN", "THEN", "ELSE",
      "END">>
editorOperators ==
    <<"AND", "OR", "NOT", "IN", "LIKE", "IS", "BETWEEN", "EXISTS", "TRUE",
      "FALSE", "NULL", "ORDER", "BY", "ASC", "DESC">>
editorTypes ==
    <<"INT", "INTEGER", "VARCHAR", "TEXT", "BOOLEAN", "DATE", "TIMESTAMP",
      "FLOAT", "DOUBLE", "CHAR", "BLOB">>
editorFunctions ==
    <<"COUNT", "SUM", "AVG", "MIN", "MAX", "NOW", "COALESCE", "CONCAT",
      "SUBSTRING", "LENGTH">>

\* updateSuggestion: the first word of the lists that properly extends the
\* last word of the buffer (the editor's schema map is empty until SetSchema)
updateSuggestion(e) ==
    LET text == taValue(e.ta)
        upperLastWord == ToUpper(LastField(text))
        all == editorKeywords \o editorOperators \o editorTypes \o editorFunctions
        hits == {i \in 1..Len(all) :
                    HasPrefix(all[i], upperLastWord) /\ all[i] # upperLastWord}
        first == CHOOSE i \in hits : \A j \in hits : i <= j
    IN [e EXCEPT !.suggestion =
           IF text = "" \/ LastField(text) = "" \/ hits = {} THEN ""
           ELSE all[first]]

\* the leading spaces and tabs of a line
RECURSIVE LeadingIndent(_)
LeadingIndent(line) ==
    IF Len(line) > 0 /\ SubSeq(line, 1, 1) \in {" ", "\t"}
    THEN SubSeq(line, 1, 1) \o LeadingIndent(SubSeq(line, 2, Len(line)))
    ELSE ""

\* getLineCol: the line of a linear index, the last line for an index
\* beyond the text
getLineCol(e, idx) ==
    LET lines == SplitLines(taValue(e.ta))
        RECURSIVE Walk(_, _)
        Walk(i, current) ==
            IF i > Len(lines) THEN [line |-> Len(lines) - 1, col |-> Len(lines[Len(lines)])]
            ELSE IF idx < current + Len(lines[i]) + 1
                 THEN [line |-> i - 1, col |-> idx - current]
                 ELSE Walk(i + 1, current + Len(lines[i]) + 1)
    IN Walk(1, 0)

\* the lines startLine..endLine the selection touches, 0-based
selectedLines(e) ==
    LET startIdx == Min(e.selectionStart, e.selectionEnd)
        endIdx == Max(e.selectionStart, e.selectionEnd)
    IN [startLine |-> getLineCol(e, startIdx).line, endLine |-> getLineCol(e, endIdx).line]

\* indentSelection: two spaces before every selected line, selectionEnd
\* moved by the characters added
indentSelection(e) ==
    IF ~e.hasSelection THEN e
    ELSE LET lines == SplitLines(taValue(e.ta))
             r == selectedLines(e)
             out == [i \in 1..Len(lines) |->
                        IF r.startLine <= i - 1 /\ i - 1 <= r.endLine
                        THEN "  " \o lines[i] ELSE lines[i]]
         IN snapshot([e EXCEPT !.ta = taSetValue(e.ta, JoinLines(out)),
                               !.selectionEnd = @ + (r.endLine - r.startLine + 1) * 2])

\* what outdentSelection removes from a line: two spaces, else one
outdentWidth(line) ==
    IF HasPrefix(line, "  ") THEN 2 ELSE IF HasPrefix(line, " ") THEN 1 ELSE 0

\* outdentSelection: two spaces, or one, removed from every selected line,
\* selectionEnd moved by the characters removed
outdentSelection(e) ==
    IF ~e.hasSelection THEN e
    ELSE LET lines == SplitLines(taValue(e.ta))
             r == selectedLines(e)
             Touched(i) == r.startLine <= i - 1 /\ i - 1 <= r.endLine
             out == [i \in 1..Len(lines) |->
                        IF Touched(i)
                        THEN Slice(lines[i], outdentWidth(lines[i]), Len(lines[i]))
                        ELSE lines[i]]
             RECURSIVE Removed(_)
             Removed(i) == IF i = 0 THEN 0
                           ELSE Removed(i - 1)
                                + (IF Touched(i) THEN outdentWidth(lines[i]) ELSE 0)
         IN snapshot([e EXCEPT !.ta = taSetValue(e.ta, JoinLines(out)),
                               !.selectionEnd = @ - Removed(Len(lines))])

\* strings.Index(s, p), -1 when p does not occur
Index(s, p) ==
    LET hits == {i \in 0..(Len(s) - Len(p)) : Slice(s, i, i + Len(p)) = p}
    IN IF hits = {} THEN -1 ELSE CHOOSE i \in hits : \A j \in hits : i <= j

\* strings.TrimLeft(line, " \t")
TrimLeftBlanks(line) == Slice(line, Len(LeadingIndent(line)), Len(line))

\* toggleComment over the current line, or the selected lines: the comment
\* marks are removed when every line has one, else "-- " is put before
\* every line
toggleComment(e) ==
    LET lines == SplitLines(taValue(e.ta))
        r == IF e.hasSelection THEN selectedLines(e)
             ELSE [startLine |-> taLine(e.ta), endLine |-> taLine(e.ta)]
        Touched(i) == r.startLine <= i - 1 /\ i - 1 <= r.endLine
        allCommented == \A i \in 1..Len(lines) :
                            Touched(i) => HasPrefix(TrimLeftBlanks(lines[i]), "--")
        Uncomment(line) ==
            LET a == Index(line, "-- ")
                b == Index(line, "--")
            IN IF a # -1 THEN Slice(line, 0, a) \o Slice(line, a + 3, Len(line))
               ELSE IF b # -1 THEN Slice(line, 0, b) \o Slice(line, b + 2, Len(line))
               ELSE line
        out == [i \in 1..Len(lines) |->
                   IF ~Touched(i) THEN lines[i]
                   ELSE IF allCommented THEN Uncomment(lines[i])
                   ELSE "-- " \o lines[i]]
    IN snapshot([e EXCEPT !.ta = taSetValue(e.ta, JoinLines(out))])

\* startSearch, startReplace, cancelSearch
startSearch(e) ==
    [e EXCEPT !.searchMode = TRUE, !.searchQuery = "", !.searchMatches = <<>>,
              !.searchIndex = 0]
startReplace(e) ==
    [e EXCEPT !.searchMode = TRUE, !.replaceMode = TRUE, !.searchQuery = "",
              !.replaceQuery = "", !.searchMatches = <<>>, !.searchIndex = 0]
cancelSearch(e) == [e EXCEPT !.searchMode = FALSE, !.replaceMode = FALSE]

\* refreshSearchMatches: strings.Index from idx on, each match appended, idx
\* set behind the match's first byte; searchIndex reset when out of range
refreshSearchMatches(e) ==
    IF e.searchQuery = "" THEN [e EXCEPT !.searchMatches = <<>>]
    ELSE LET text == taValue(e.ta)
             RECURSIVE Walk(_, _)
             Walk(idx, matches) ==
                 LET found == Index(Slice(text, idx, Len(text)), e.searchQuery)
                 IN IF found = -1 THEN matches
                    ELSE Walk(idx + found + 1, Append(matches, idx + found))
             matches == Walk(0, <<>>)
         IN [e EXCEPT !.searchMatches = matches,
                      !.searchIndex = IF @ >= Len(matches) THEN 0 ELSE @]

\* findNext: the next match, the first after the last
findNext(e) ==
    IF Len(e.searchMatches) = 0 THEN e
    ELSE LET i == (e.searchIndex + 1) % Len(e.searchMatches)
         IN setCursorIndex([e EXCEPT !.searchIndex = i], e.searchMatches[i + 1])

\* findPrev: the match before, the last before the first
findPrev(e) ==
    IF Len(e.searchMatches) = 0 THEN e
    ELSE LET i == IF e.searchIndex - 1 < 0 THEN Len(e.searchMatches) - 1
                  ELSE e.searchIndex - 1
         IN setCursorIndex([e EXCEPT !.searchIndex = i], e.searchMatches[i + 1])

\* doReplace: the current match replaced by replaceQuery
doReplace(e) ==
    IF Len(e.searchMatches) = 0 \/ e.replaceQuery = "" THEN e
    ELSE LET matchIdx == e.searchMatches[e.searchIndex + 1]
             text == taValue(e.ta)
             newText == Slice(text, 0, matchIdx) \o e.replaceQuery
                        \o Slice(text, matchIdx + Len(e.searchQuery), Len(text))
         IN refreshSearchMatches(snapshot([e EXCEPT !.ta = taSetValue(e.ta, newText)]))

\* strings.ReplaceAll for a non-empty old string
RECURSIVE ReplaceAll(_, _, _)
ReplaceAll(s, old, new) ==
    LET i == Index(s, old)
    IN IF i = -1 THEN s
       ELSE Slice(s, 0, i) \o new \o ReplaceAll(Slice(s, i + Len(old), Len(s)), old, new)

\* replaceAll
replaceAll(e) ==
    IF e.searchQuery = "" \/ e.replaceQuery = "" THEN e
    ELSE LET newText == ReplaceAll(taValue(e.ta), e.searchQuery, e.replaceQuery)
         IN refreshSearchMatches(snapshot([e EXCEPT !.ta = taSetValue(e.ta, newText)]))

\* a key with one printable ASCII character
IsPrintableKey(key) ==
    Len(key) = 1 /\ (IsLower(key) \/ IsUpper(key) \/ IsDigit(key)
                      \/ key \in {" ", "*", "-", "_", ";", ",", ".", "(", ")", "=", "~"})

\* updateSearchInput(key)
updateSearchInput(e, key) ==
    CASE key = "esc" -> cancelSearch(e)
      [] key = "enter" -> IF e.replaceMode THEN doReplace(e) ELSE findNext(e)
      [] key = "f3" -> findNext(e)
      [] key = "shift+f3" -> findPrev(e)
      [] key = "ctrl+enter" -> IF e.replaceMode THEN replaceAll(e) ELSE e
      [] key = "backspace" ->
            IF Len(e.searchQuery) > 0
            THEN refreshSearchMatches(
                     [e EXCEPT !.searchQuery = Slice(@, 0, Len(@) - 1)])
            ELSE e
      [] key = "tab" -> e
      [] OTHER -> IF IsPrintableKey(key)
                  THEN refreshSearchMatches([e EXCEPT !.searchQuery = @ \o key])
                  ELSE e

\* startGotoLine, cancelGotoLine
startGotoLine(e) == [e EXCEPT !.gotoLineMode = TRUE, !.gotoLineInput = ""]
cancelGotoLine(e) == [e EXCEPT !.gotoLineMode = FALSE, !.gotoLineInput = ""]

\* a string of digits without its leading zeros
RECURSIVE StripZeros(_)
StripZeros(s) ==
    IF s # "" /\ SubSeq(s, 1, 1) = "0" THEN StripZeros(SubSeq(s, 2, Len(s))) ELSE s

\* the digit at position i of a string of digits, 1-based
DigitAt(s, i) == CHOOSE n \in 0..9 : SubSeq(Digits, n + 1, n + 1) = SubSeq(s, i, i)

\* the largest int of a 64-bit build, in digits
MaxInt64Digits == "9223372036854775807"

\* a > b for two strings of digits of the same length
RECURSIVE DigitsGreater(_, _)
DigitsGreater(a, b) ==
    IF a = "" THEN FALSE
    ELSE IF DigitAt(a, 1) # DigitAt(b, 1) THEN DigitAt(a, 1) > DigitAt(b, 1)
    ELSE DigitsGreater(SubSeq(a, 2, Len(a)), SubSeq(b, 2, Len(b)))

\* strconv.Atoi returns an error: the empty string (syntax), or a number
\* beyond the largest int (range)
AtoiFails(s) ==
    LET t == StripZeros(s)
    IN \/ s = ""
       \/ Len(t) > Len(MaxInt64Digits)
       \/ Len(t) = Len(MaxInt64Digits) /\ DigitsGreater(t, MaxInt64Digits)

\* the value of at most nine digits
RECURSIVE AtoiSmall(_)
AtoiSmall(t) ==
    IF t = "" THEN 0 ELSE AtoiSmall(SubSeq(t, 1, Len(t) - 1)) * 10 + DigitAt(t, Len(t))

\* what stands for a number of ten digits or more that is an int: doGotoLine
\* only compares the number with 1 and with the number of lines
ManyLines == 1000000000

\* strconv.Atoi of a string of digits; -1 stands for an error
Atoi(s) ==
    IF AtoiFails(s) THEN -1
    ELSE IF Len(StripZeros(s)) > 9 THEN ManyLines
    ELSE AtoiSmall(StripZeros(s))

\* doGotoLine: the cursor to the start of the line, the last line for a
\* number beyond the text; an error or a number below 1 cancels
doGotoLine(e) ==
    LET n == Atoi(e.gotoLineInput)
        lines == SplitLines(taValue(e.ta))
        lineNum == Min(n, Len(lines))
    IN IF AtoiFails(e.gotoLineInput) \/ n < 1 THEN cancelGotoLine(e)
       ELSE cancelGotoLine(setCursorIndex(e, LineStart(taValue(e.ta), lineNum - 1)))

\* updateGotoLineInput(key)
updateGotoLineInput(e, key) ==
    CASE key = "esc" -> cancelGotoLine(e)
      [] key = "enter" -> doGotoLine(e)
      [] key = "backspace" ->
            IF Len(e.gotoLineInput) > 0
            THEN [e EXCEPT !.gotoLineInput = Slice(@, 0, Len(@) - 1)]
            ELSE e
      [] OTHER -> IF Len(key) = 1 /\ IsDigit(key)
                  THEN [e EXCEPT !.gotoLineInput = @ \o key]
                  ELSE e

keyUndo == "ctrl+z"
keyRedo == "ctrl+y"
keyCopy == "alt+c"
keyPaste == "alt+v"
keyCut == "alt+x"
keyWord == "ctrl+w"
keySelectAll == "ctrl+a"

\* the characters the model types in Insert mode
TypedChars == {"n", " ", "\n"}

\* updateNormal(key): clipText, clipErr are what clipboard.ReadAll() returns
updateNormal(e, key, clipText, clipErr) ==
    CASE key = keySelectAll -> selectAll(e)
      [] key = "i" -> [e EXCEPT !.mode = ModeInsert, !.hasSelection = FALSE]
      [] key = "v" -> [e EXCEPT !.mode = ModeVisual,
                                !.selectionStart = getCursorIndex(e),
                                !.selectionEnd = getCursorIndex(e),
                                !.hasSelection = TRUE]
      [] key \in {"h", "left"} -> [e EXCEPT !.ta = taKeyLeft(e.ta)]
      [] key \in {"l", "right"} -> [e EXCEPT !.ta = taKeyRight(e.ta)]
      [] key \in {"k", "up"} -> [e EXCEPT !.ta = taCursorUp(e.ta)]
      [] key \in {"j", "down"} -> [e EXCEPT !.ta = taCursorDown(e.ta)]
      [] key = "x" -> LET e1 == snapshot(e)
                      IN snapshot([e1 EXCEPT !.ta = taKeyDelete(e1.ta)])
      [] key \in {"u", keyUndo} -> undo(e)
      [] key \in {"ctrl+r", keyRedo} -> redo(e)
      [] key \in {"p", keyPaste} -> pasteFromClipboard(e, clipText, clipErr)
      [] key = "0" -> [e EXCEPT !.ta = taCursorStart(e.ta)]
      [] key = "$" -> [e EXCEPT !.ta = taCursorEnd(e.ta)]
      [] key = "alt+up" -> moveLineUp(e)
      [] key = "alt+down" -> moveLineDown(e)
      [] key = "ctrl+d" -> duplicateLine(e)
      [] key = "ctrl+k" -> deleteLine(e)
      [] key = "ctrl+/" -> toggleComment(e)
      [] key = "alt+z" -> [e EXCEPT !.softWrap = ~@]
      [] key = "ctrl+l" -> [e EXCEPT !.showLineNumbers = ~@]
      [] OTHER -> e

\* updateVisual(key)
updateVisual(e, key) ==
    CASE key \in {"esc", "ctrl+["} ->
            [e EXCEPT !.mode = ModeNormal, !.hasSelection = FALSE]
      [] key \in {"h", "left", "l", "right", "k", "up", "j", "down"} ->
            LET e1 == [e EXCEPT !.ta = CASE key \in {"h", "left"} -> taKeyLeft(e.ta)
                                         [] key \in {"l", "right"} -> taKeyRight(e.ta)
                                         [] key \in {"k", "up"} -> taCursorUp(e.ta)
                                         [] OTHER -> taCursorDown(e.ta)]
            IN [e1 EXCEPT !.selectionEnd = getCursorIndex(e1)]
      [] key = "y" -> [e EXCEPT !.mode = ModeNormal, !.hasSelection = FALSE]
      [] key \in {"d", "x"} ->
            [cutToClipboard(e) EXCEPT !.mode = ModeNormal, !.hasSelection = FALSE]
      [] key = "tab" -> indentSelection(e)
      [] key = "shift+tab" -> outdentSelection(e)
      [] OTHER -> e

\* updateInsert, the tail for a key the textarea gets: snapshot on space and
\* enter, auto-indent on enter, the key itself, then updateSuggestion
insertTyped(e, key) ==
    LET e1 == IF key \in {" ", "\n"} THEN snapshot(e) ELSE e
        lines == SplitLines(taValue(e1.ta))
        curLine == taLine(e1.ta)
        indent == IF key = "\n" /\ curLine > 0 /\ curLine < Len(lines)
                  THEN LeadingIndent(lines[curLine]) ELSE ""
        t1 == IF indent # "" THEN taInsertString(e1.ta, indent) ELSE e1.ta
        t2 == CASE key = "left" -> taKeyLeft(t1)
                [] key = "right" -> taKeyRight(t1)
                [] key = "up" -> taCursorUp(t1)
                [] key = "down" -> taCursorDown(t1)
                [] key = "backspace" -> taKeyBackspace(t1)
                [] key \in TypedChars \/ IsPrintableKey(key) -> taInsertString(t1, key)
                [] OTHER -> t1
    IN updateSuggestion([e1 EXCEPT !.ta = t2])

\* updateInsert(key)
updateInsert(e, key, clipText, clipErr) ==
    CASE key \in {"esc", "ctrl+["} -> [e EXCEPT !.mode = ModeNormal]
      [] key = keySelectAll -> selectAll(e)
      [] key \in {"shift+left", "shift+right", "shift+up", "shift+down"} ->
            LET e1 == IF ~e.hasSelection
                      THEN [e EXCEPT !.selectionStart = getCursorIndex(e),
                                     !.hasSelection = TRUE]
                      ELSE e
                e2 == [e1 EXCEPT !.ta = CASE key = "shift+left" -> taKeyLeft(e1.ta)
                                          [] key = "shift+right" -> taKeyRight(e1.ta)
                                          [] key = "shift+up" -> taCursorUp(e1.ta)
                                          [] OTHER -> taCursorDown(e1.ta)]
            IN [e2 EXCEPT !.selectionEnd = getCursorIndex(e2)]
      [] key = keyUndo -> undo(e)
      [] key = keyRedo -> redo(e)
      [] key = keyCopy -> e
      [] key = keyPaste -> pasteFromClipboard(e, clipText, clipErr)
      [] key = keyCut -> cutToClipboard(e)
      [] key = keyWord ->
            LET e1 == snapshot(e)
            IN snapshot([e1 EXCEPT !.ta = taDeleteWordBackward(e1.ta)])
      [] key = "tab" /\ e.suggestion # "" /\ LastField(taValue(e.ta)) # ""
             /\ HasPrefix(ToUpper(e.suggestion), ToUpper(LastField(taValue(e.ta)))) ->
            LET text == taValue(e.ta)
                lastWord == LastField(text)
                rest == Slice(e.suggestion, Len(lastWord), Len(e.suggestion))
                completion == IF ToLower(lastWord) = lastWord
                              THEN ToLower(rest) ELSE rest
                t == taSetValue(e.ta, text \o completion)
            IN snapshot([e EXCEPT !.ta = taSetCursor(t, Len(text) + Len(completion)),
                                  !.suggestion = ""])
      [] OTHER -> insertTyped(e, key)

\* getIndexFromCoords for a position in the content area, relX columns
\* right of the line numbers in row lineIdx of the text; the view is taken
\* to hold the text from its first line (offsetY = 0)
getIndexFromCoords(e, relX, lineIdx) ==
    LET lines == SplitLines(taValue(e.ta))
    IN IF lineIdx < 0 \/ lineIdx >= Len(lines) THEN -1
       ELSE LineStart(taValue(e.ta), lineIdx) + Min(relX, Len(lines[lineIdx + 1]))

\* handleMouse for an event in the content area
handleMouse(e, msg) ==
    LET idx == getIndexFromCoords(e, msg.x, msg.y)
    IN IF idx = -1 THEN e
       ELSE CASE msg.type = "MouseLeft" ->
                    IF ~e.mouseDown
                    THEN [setCursorIndex(e, idx) EXCEPT !.mouseDown = TRUE,
                                                        !.mouseStart = idx,
                                                        !.hasSelection = FALSE]
                    ELSE IF idx # e.mouseStart
                    THEN setCursorIndex([e EXCEPT !.mode = ModeVisual,
                                                  !.selectionStart = e.mouseStart,
                                                  !.selectionEnd = idx,
                                                  !.hasSelection = TRUE], idx)
                    ELSE e
              [] msg.type = "MouseRelease" -> [e EXCEPT !.mouseDown = FALSE]
              [] msg.type = "MouseWheelUp" -> [e EXCEPT !.ta = taCursorUp(e.ta)]
              [] msg.type = "MouseWheelDown" -> [e EXCEPT !.ta = taCursorDown(e.ta)]
              [] OTHER -> e

KeyMsg(key) == [key |-> key, kind |-> "key"]
MouseMsg(type, x, y) == [x |-> x, y |-> y, type |-> type, kind |-> "mouse"]

\* a switch in which Visual mode takes the i of Normal mode
dispatchVisualAsNormal(e, key, clipText, clipErr) ==
    CASE e.mode = ModeNormal -> updateNormal(e, key, clipText, clipErr)
      [] e.mode = ModeVisual ->
            IF key = "i" THEN updateNormal(e, key, clipText, clipErr)
            ELSE updateVisual(e, key)
      [] OTHER -> updateInsert(e, IF key = "enter" THEN "\n" ELSE key, clipText, clipErr)

\* Update, the switch on e.mode.  The enter key is "enter" by its name and
\* "\n" where updateInsert looks at its type.
dispatch(e, key, clipText, clipErr) ==
    CASE e.mode = ModeNormal -> updateNormal(e, key, clipText, clipErr)
      [] e.mode = ModeVisual -> updateVisual(e, key)
      [] OTHER -> updateInsert(e, IF key = "enter" THEN "\n" ELSE key, clipText, clipErr)

\* an Update that looks at the shortcuts of every mode before the prompts
UpdateShortcutsFirst(e, msg, clipText, clipErr) ==
    IF msg.kind = "mouse" THEN handleMouse(e, msg)
    ELSE CASE msg.key = "ctrl+f" -> startSearch(e)
           [] msg.key = "ctrl+h" -> startReplace(e)
           [] msg.key = "f3" -> findNext(e)
           [] msg.key = "shift+f3" -> findPrev(e)
           [] msg.key = "ctrl+g" -> startGotoLine(e)
           [] e.gotoLineMode -> updateGotoLineInput(e, msg.key)
           [] e.searchMode -> updateSearchInput(e, msg.key)
           [] OTHER -> dispatch(e, msg.key, clipText, clipErr)

\* Update of the focused editor: the mouse, the line and search prompts,
\* the shortcuts of every mode, then the mode's keys
Update(e, msg, clipText, clipErr) ==
    IF msg.kind = "mouse" THEN handleMouse(e, msg)
    ELSE CASE e.gotoLineMode -> updateGotoLineInput(e, msg.key)
           [] e.searchMode -> updateSearchInput(e, msg.key)
           [] msg.key = "ctrl+f" -> startSearch(e)
           [] msg.key = "ctrl+h" -> startReplace(e)
           [] msg.key = "f3" -> findNext(e)
           [] msg.key = "shift+f3" -> findPrev(e)
           [] msg.key = "ctrl+g" -> startGotoLine(e)
           [] OTHER -> dispatch(e, msg.key, clipText, clipErr)

\* the keys that reach the switch on e.mode
ReachesMode(e, msg) ==
    /\ msg.kind = "key"
    /\ ~e.gotoLineMode
    /\ ~e.searchMode
    /\ msg.key \notin {"ctrl+f", "ctrl+h", "f3", "shift+f3", "ctrl+g"}

\* what the clipboard holds after Update: y, d and x in Visual mode, copy
\* and cut in Insert mode write it
UpdateClipboard(e, msg, clip) ==
    IF /\ ReachesMode(e, msg)
       /\ \/ e.mode = ModeVisual /\ msg.key \in {"y", "d", "x"}
          \/ e.mode = ModeInsert /\ msg.key \in {keyCopy, keyCut}
    THEN copyToClipboard(e, clip)
    ELSE clip

--------------------------------------------------------------------------
(* internal/completion: items, contexts and the four sources.  A           *)
(* CompletionItem is modelled without its Detail text, which no code reads.*)

KindKeyword == "Keyword"
KindTable == "Table"
KindColumn == "Column"
KindFunction == "Function"
KindAI == "AI"
KindHistory == "History"

Item(label, insertText, kind, source, score, filterText) ==
    [Label |-> label, InsertText |-> insertText, Kind |-> kind,
     Source |-> source, Score |-> score, FilterText |-> filterText]

\* A byte above 0x7F is written as the Latin-1 character of its value, which
\* is the rune that rune(query[i]) makes of it: the two bytes 0xC2 0xBA of
\* the character U+00BA are "Âº".  The bytes that are letters as runes:
Latin1Letters ==
    "ªµºÀÁÂÃÄÅÆÇÈÉÊËÌÍÎÏÐÑÒÓÔÕÖØÙÚÛÜÝÞßàáâãäåæçèéêëìíîïðñòóôõöøùúûüýþÿ"
IsLatin1Letter(c) == \E i \in 1..Len(Latin1Letters) : SubSeq(Latin1Letters, i, i) = c

\* unicode.IsLetter / IsDigit / '_' on rune(query[i]), one byte of the query
IsWordRune(c) ==
    IsLower(c) \/ IsUpper(c) \/ IsDigit(c) \/ c = "_" \/ IsLatin1Letter(c)

\* extractWord: the run of word characters that ends at the cursor
extractWord(query, cursor0) ==
    LET cursor == IF cursor0 > Len(query) THEN Len(query) ELSE cursor0
        RECURSIVE Start(_)
        Start(i) == IF i > 0 /\ IsWordRune(CharAt(query, i - 1))
                    THEN Start(i - 1) ELSE i
    IN [word |-> Slice(query, Start(cursor), cursor), start |-> Start(cursor)]

\* strings.LastIndex(s, "\n"), -1 when there is none
LastNewline(s) ==
    LET hits == {i \in 0..(Len(s) - 1) : CharAt(s, i) = "\n"}
    IN IF hits = {} THEN -1 ELSE CHOOSE i \in hits : \A j \in hits : j <= i

\* buildContext, for a cursor within the query
buildContext(query, cursor, database, tables) ==
    LET w == extractWord(query, cursor)
        nl == LastNewline(Slice(query, 0, cursor))
        lineStart == IF nl = -1 THEN 0 ELSE nl + 1
    IN [Query |-> query, Cursor |-> cursor, Word |-> w.word,
        WordStart |-> w.start, Database |-> database, Tables |-> tables,
        LinePrefix |-> ToUpper(TrimSpace(Slice(query, lineStart, cursor)))]

\* a cache keyed by the whole query
cacheKeyByQuery(ctx) == ctx.Query

\* the engine's cache key
cacheKey(ctx) == ctx.Word \o "|" \o ctx.LinePrefix

\* sqlKeywords of the completion sources, by category
kwStart ==
    <<"SELECT", "INSERT", "UPDATE", "DELETE", "CREATE", "ALTER", "DROP",
      "TRUNCATE", "GRANT", "REVOKE", "BEGIN", "COMMIT", "ROLLBACK",
      "EXPLAIN", "ANALYZE", "SHOW", "DESCRIBE", "USE", "WITH">>
kwSelect ==
    <<"DISTINCT", "ALL", "TOP", "AS", "FROM", "WHERE", "AND", "OR", "NOT",
      "IN", "BETWEEN", "LIKE", "IS", "NULL", "TRUE", "FALSE",
      "ORDER", "BY", "ASC", "DESC", "LIMIT", "OFFSET",
      "GROUP", "HAVING", "UNION", "INTERSECT", "EXCEPT",
      "JOIN", "INNER", "LEFT", "RIGHT", "FULL", "OUTER", "CROSS", "ON",
      "CASE", "WHEN", "THEN", "ELSE", "END">>
kwFunctions ==
    <<"COUNT", "SUM", "AVG", "MIN", "MAX", "COALESCE", "NULLIF",
      "CONCAT", "SUBSTRING", "LENGTH", "UPPER", "LOWER", "TRIM",
      "NOW", "CURRENT_DATE", "CURRENT_TIME", "CURRENT_TIMESTAMP",
      "CAST", "CONVERT", "IFNULL", "NVL">>
kwTypes ==
    <<"INT", "INTEGER", "BIGINT", "SMALLINT", "TINYINT",
      "VARCHAR", "CHAR", "TEXT", "NVARCHAR",
      "DECIMAL", "NUMERIC", "FLOAT", "DOUBLE", "REAL",
      "DATE", "TIME", "DATETIME", "TIMESTAMP",
      "BOOLEAN", "BOOL", "BLOB", "JSON">>

\* source priorities and base scores
PrioritySchema == 100
PriorityHistory == 70
PriorityKeywords == 50
PriorityAI == 30
ScoreKeyword == 40
BoostKeyword == 30
ScoreFunction == 35
ScoreTable == 90
ScoreColumn == 85
ScoreHistory == 60
HistoryLimit == 5
ScoreAI == 20
AIMinWord == 3

\* the keyword table, by category name
sqlKeywords ==
    [start |-> kwStart, select |-> kwSelect, functions |-> kwFunctions, types |-> kwTypes]

\* KeywordSource.getRelevantCategories: the names of the categories to offer
getRelevantCategories(linePrefix0) ==
    LET linePrefix == ToUpper(TrimSpace(linePrefix0))
    IN IF linePrefix = "" THEN <<"start">>
       ELSE IF HasPrefix(linePrefix, "SELECT") \/ HasPrefix(linePrefix, "UPDATE")
                \/ HasPrefix(linePrefix, "DELETE") THEN <<"select">>
       ELSE IF HasPrefix(linePrefix, "CREATE") \/ HasPrefix(linePrefix, "ALTER")
            THEN <<"types">>
       ELSE <<"select">>

\* a keyword source that boosts the keywords the current word starts with
keywordItemsPrefixOfWord(category, word) ==
    [i \in 1..Len(sqlKeywords[category]) |->
        Item(sqlKeywords[category][i], sqlKeywords[category][i] \o " ",
             KindKeyword, "keywords",
             ScoreKeyword +
                 (IF word # "" /\ HasPrefix(ToLower(word), ToLower(sqlKeywords[category][i]))
                  THEN BoostKeyword ELSE 0),
             sqlKeywords[category][i])]

\* the items of one category: each keyword, boosted when it starts with the
\* current word
keywordItems(category, word) ==
    [i \in 1..Len(sqlKeywords[category]) |->
        Item(sqlKeywords[category][i], sqlKeywords[category][i] \o " ",
             KindKeyword, "keywords",
             ScoreKeyword +
                 (IF word # "" /\ HasPrefix(ToLower(sqlKeywords[category][i]), ToLower(word))
                  THEN BoostKeyword ELSE 0),
             sqlKeywords[category][i])]

\* the function items, offered whatever the category
functionItems ==
    [i \in 1..Len(kwFunctions) |->
        Item(kwFunctions[i] \o "()", kwFunctions[i] \o "()", KindFunction,
             "keywords", ScoreFunction, kwFunctions[i])]

\* KeywordSource.Complete: the keywords of the relevant category (there is
\* always exactly one), then every function
KeywordComplete(ctx) ==
    [category \in {"start", "select", "types"} |-> keywordItems(category, ctx.Word)]
        [getRelevantCategories(ctx.LinePrefix)[1]]
    \o functionItems

\* SchemaSource.shouldSuggestTables
shouldSuggestTables(linePrefix0) ==
    LET linePrefix == ToUpper(linePrefix0)
        triggers == {"FROM", "JOIN", "INTO", "UPDATE", "TABLE", "TRUNCATE"}
    IN \/ \E t \in triggers : HasSuffix(linePrefix, t) \/ HasSuffix(linePrefix, t \o " ")
       \/ Contains(linePrefix, "FROM")

\* SchemaSource.shouldSuggestColumns
shouldSuggestColumns(linePrefix0) ==
    LET linePrefix == ToUpper(linePrefix0)
        triggers == {"SELECT", "WHERE", "AND", "OR", "SET", "ORDER BY",
                     "GROUP BY", "HAVING"}
    IN \/ \E t \in triggers : HasSuffix(linePrefix, t) \/ HasSuffix(linePrefix, t \o " ")
       \/ HasSuffix(linePrefix, ".")

\* SchemaSource.getTableItems
getTableItems(tables) ==
    [i \in 1..Len(tables) |->
        Item(tables[i], tables[i], KindTable, "schema", ScoreTable, tables[i])]

\* SchemaSource.getColumnItems, for a schema that knows the columns of one
\* table (the iteration over the tables of the column map has one step)
getColumnItems(columns) ==
    [i \in 1..Len(columns) |->
        Item(columns[i], columns[i], KindColumn, "schema", ScoreColumn, columns[i])]

\* SchemaSource.Complete
SchemaComplete(schema, ctx) ==
    (IF shouldSuggestTables(ctx.LinePrefix) THEN getTableItems(schema.tables) ELSE <<>>)
    \o (IF shouldSuggestColumns(ctx.LinePrefix) THEN getColumnItems(schema.columns) ELSE <<>>)

\* truncateHistory: newlines and tabs become spaces, runs of spaces collapse,
\* and the text is cut to max bytes
truncateHistory(s0, max) ==
    LET RECURSIVE Flat(_)
        Flat(s) == IF s = "" THEN ""
                   ELSE (IF CharAt(s, 0) \in {"\n", "\t"} THEN " " ELSE CharAt(s, 0))
                        \o Flat(Slice(s, 1, Len(s)))
        RECURSIVE Collapse(_)
        Collapse(s) == IF Len(s) < 2 THEN s
                       ELSE IF CharAt(s, 0) = " " /\ CharAt(s, 1) = " "
                            THEN Collapse(Slice(s, 1, Len(s)))
                            ELSE CharAt(s, 0) \o Collapse(Slice(s, 1, Len(s)))
        s == Collapse(Flat(s0))
    IN IF Len(s) <= max THEN s ELSE Slice(s, 0, max - 3) \o "..."

HistoryLabelWidth == 50

\* HistorySource.Complete: at most five entries that start with the line
\* prefix, the most recent first
HistoryComplete(hist, ctx) ==
    LET prefix == ToUpper(ctx.LinePrefix)
        RECURSIVE Walk(_, _)
        Walk(i, items) ==
            IF i > Len(hist) \/ Len(items) >= HistoryLimit THEN items
            ELSE IF prefix # "" /\ ~HasPrefix(ToUpper(hist[i]), prefix)
                 THEN Walk(i + 1, items)
                 ELSE Walk(i + 1,
                           Append(items, Item(truncateHistory(hist[i], HistoryLabelWidth),
                                              hist[i], KindHistory,
                                              "history", ScoreHistory - (i - 1),
                                              hist[i])))
    IN Walk(1, <<>>)

\* strings.TrimPrefix
TrimPrefix(s, p) == IF HasPrefix(s, p) THEN Slice(s, Len(p), Len(s)) ELSE s

\* fmt.Sprintf("%d. ", n) for the line numbers a response can carry
NumberPrefix(n) == IF n <= 9 THEN CharAt(Digits, n) \o ". " ELSE "1" \o CharAt(Digits, n - 10) \o ". "

\* truncate of the AI source
truncate(s, max) == IF Len(s) <= max THEN s ELSE Slice(s, 0, max - 3) \o "..."

LabelWidth == 40

\* AISource.parseResponse: one item per non-empty line, its numbering or
\* bullet removed, scored by the line's position
parseResponse(response) ==
    LET lines == SplitLines(TrimSpace(response))
        Clean(i) == TrimSpace(TrimPrefix(TrimPrefix(TrimPrefix(
                        TrimSpace(lines[i]), NumberPrefix(i)), "- "), "* "))
        RECURSIVE Walk(_, _)
        Walk(i, items) ==
            IF i > Len(lines) THEN items
            ELSE IF TrimSpace(lines[i]) = "" \/ Clean(i) = "" THEN Walk(i + 1, items)
            ELSE Walk(i + 1,
                      Append(items, Item(truncate(Clean(i), LabelWidth), Clean(i),
                                         KindAI, "ai", ScoreAI + (5 - (i - 1)),
                                         Clean(i))))
    IN Walk(1, <<>>)

\* AISource.getCacheKey
aiCacheKey(ctx) == ctx.LinePrefix \o "|" \o ctx.Word

--------------------------------------------------------------------------
(* Engine.Complete after the join: filter, sort, cap. *)

BonusPrefix == 100
BonusContains == 50
MaxResults == 20

\* the text an item is matched on
filterTextOf(item) ==
    ToLower(IF item.FilterText = "" THEN item.Label ELSE item.FilterText)

\* a filter that compares with the word as typed
filterItemsCaseSensitive(items, prefix0) ==
    LET keep(it) == Contains(filterTextOf(it), prefix0)
        boost(it) == [it EXCEPT !.Score = @ + (IF HasPrefix(filterTextOf(it), prefix0)
                                               THEN BonusPrefix ELSE BonusContains)]
    IN SelectSeq([i \in 1..Len(items) |-> IF keep(items[i]) THEN boost(items[i])
                                          ELSE items[i]], keep)

\* a filter with the two bonuses the wrong way round
filterItemsSwappedBonus(items, prefix0) ==
    LET keep(it) == Contains(filterTextOf(it), ToLower(prefix0))
        boost(it) == [it EXCEPT !.Score = @ + (IF HasPrefix(filterTextOf(it), ToLower(prefix0))
                                               THEN BonusContains ELSE BonusPrefix)]
    IN SelectSeq([i \in 1..Len(items) |-> IF keep(items[i]) THEN boost(items[i])
                                          ELSE items[i]], keep)

\* Engine.filterItems: the items whose text contains the word, in their
\* order, each with its bonus
filterItems(items, prefix0) ==
    LET keep(it) == Contains(filterTextOf(it), ToLower(prefix0))
        boost(it) == [it EXCEPT !.Score = @ + (IF HasPrefix(filterTextOf(it), ToLower(prefix0))
                                               THEN BonusPrefix ELSE BonusContains)]
    IN SelectSeq([i \in 1..Len(items) |-> IF keep(items[i]) THEN boost(items[i])
                                          ELSE items[i]], keep)

\* a sort that puts the items of the source of higher priority first and
\* orders by score within a source
sortByPriorityThenScore(items) ==
    LET prio(it) == CASE it.Source = "schema" -> PrioritySchema
                      [] it.Source = "history" -> PriorityHistory
                      [] it.Source = "keywords" -> PriorityKeywords
                      [] it.Source = "ai" -> PriorityAI
                      [] OTHER -> 0
    IN SortSeq(items, LAMBDA a, b : \/ prio(a) > prio(b)
                                    \/ prio(a) = prio(b) /\ a.Score > b.Score)

\* sort.Slice with less(i, j) = Score[i] > Score[j].  sort.Slice does not
\* promise the order of items of equal score; the model keeps them in their
\* order of arrival (SortSeq inserts each item after its equals).
sortByScore(items) == SortSeq(items, LAMBDA a, b : a.Score > b.Score)

\* a Complete that returns everything
limitResultsNone(items) == items

\* the limit on the results
limitResults(items) ==
    IF Len(items) > MaxResults THEN SubSeq(items, 1, MaxResults) ELSE items

\* Engine.Complete from the merged items to the returned list
finishComplete(allItems, word) ==
    limitResults(sortByScore(IF word # "" THEN filterItems(allItems, word)
                             ELSE allItems))

--------------------------------------------------------------------------
(* The engine's state.  A Go slice is a header (array, len, cap) over a    *)
(* backing array; heap[a] is backing array a, "" an element never written. *)

NoArray == 0

\* NewEngine: sources = make([]Source, 0), an empty cache
NewEngine ==
    [sources |-> [arr |-> NoArray, len |-> 0, cap |-> 0],
     cache |-> [k \in {} |-> <<>>]]

\* Source.Priority of each source; "custom" is a caller's own Source
PriorityCustom == 10
Priority(s) ==
    CASE s = "schema" -> PrioritySchema
      [] s = "history" -> PriorityHistory
      [] s = "keywords" -> PriorityKeywords
      [] s = "ai" -> PriorityAI
      [] OTHER -> PriorityCustom

\* append(e.sources, source): in place while the capacity lasts, else into a
\* new array of twice the capacity (one element for an empty slice)
appendSource(e, h, source) ==
    IF e.sources.len < e.sources.cap
    THEN [e |-> [e EXCEPT !.sources.len = @ + 1],
          h |-> [h EXCEPT ![e.sources.arr][e.sources.len + 1] = source]]
    ELSE LET newcap == IF e.sources.cap = 0 THEN 1 ELSE 2 * e.sources.cap
             old == IF e.sources.arr = NoArray THEN <<>> ELSE h[e.sources.arr]
         IN [e |-> [e EXCEPT !.sources = [arr |-> Len(h) + 1,
                                           len |-> e.sources.len + 1,
                                           cap |-> newcap]],
             h |-> Append(h, [i \in 1..newcap |->
                                 IF i <= e.sources.len THEN old[i]
                                 ELSE IF i = e.sources.len + 1 THEN source
                                 ELSE ""])]

\* one exchange of the insertion sort that sort.Slice runs on a short slice:
\* element j (0-based) moves down while its priority is higher than its
\* neighbour's
sortStep(h, arr, j) == [h EXCEPT ![arr][j] = h[arr][j + 1], ![arr][j + 1] = h[arr][j]]
sortPending(h, arr, j) == j > 0 /\ Priority(h[arr][j + 1]) > Priority(h[arr][j])

\* the exchanges of the insertion sort for the element appended last
RECURSIVE sortDown(_, _, _)
sortDown(h, arr, j) ==
    IF sortPending(h, arr, j) THEN sortDown(sortStep(h, arr, j), arr, j - 1) ELSE h

\* sort.Slice runs pdqsort_func (Go 1.19 and later): insertion sort for up to
\* maxInsertion elements, else a pivot, a try for a nearly sorted slice, and
\* a partition.  The operators below take the slice s as a sequence and
\* 0-based offsets a <= b; less(i, j) is the closure of RegisterSource.
maxInsertion == 12

\* insertionSort_func on s[a:b]
insertionSort(s, a, b) ==
    LET less(t, i, j) == Priority(t[i + 1]) > Priority(t[j + 1])
        swap(t, i, j) == [t EXCEPT ![i + 1] = t[j + 1], ![j + 1] = t[i + 1]]
        RECURSIVE inner(_, _)
        inner(t, j) == IF j > a /\ less(t, j, j - 1)
                       THEN inner(swap(t, j, j - 1), j - 1) ELSE t
        RECURSIVE outer(_, _)
        outer(t, i) == IF i >= b THEN t ELSE outer(inner(t, i), i + 1)
    IN outer(s, a + 1)

\* choosePivot_func on s[a:b], for fewer than 50 elements: the median of the
\* elements at the quarters; increasing tells that the three were in order
choosePivot(s, a, b) ==
    LET less(i, j) == Priority(s[i + 1]) > Priority(s[j + 1])
        l == b - a
        i == a + (l \div 4) * 1
        j == a + (l \div 4) * 2
        k == a + (l \div 4) * 3
        \* order2: the two indices in order, and whether they were exchanged
        o1 == IF less(j, i) THEN <<j, i, 1>> ELSE <<i, j, 0>>
        o2 == IF less(k, o1[2]) THEN <<k, o1[2], 1>> ELSE <<o1[2], k, 0>>
        o3 == IF less(o2[1], o1[1]) THEN <<o2[1], o1[1], 1>> ELSE <<o1[1], o2[1], 0>>
    IN IF l >= 8
       THEN [pivot |-> o3[2], increasing |-> o1[3] + o2[3] + o3[3] = 0]
       ELSE [pivot |-> j, increasing |-> TRUE]

\* partition_func on s[a:b] around s[pivot]: the elements less than the
\* pivot before mid, the pivot at mid, the others behind
partition(s, a, b, pivot) ==
    LET less(t, i, j) == Priority(t[i + 1]) > Priority(t[j + 1])
        swap(t, i, j) == [t EXCEPT ![i + 1] = t[j + 1], ![j + 1] = t[i + 1]]
        s0 == swap(s, a, pivot)
        RECURSIVE up(_, _, _)
        up(t, i, j) == IF i <= j /\ less(t, i, a) THEN up(t, i + 1, j) ELSE i
        RECURSIVE down(_, _, _)
        down(t, i, j) == IF i <= j /\ ~less(t, j, a) THEN down(t, i, j - 1) ELSE j
        i0 == up(s0, a + 1, b - 1)
        j0 == down(s0, i0, b - 1)
        RECURSIVE loop(_, _, _)
        loop(t, i, j) ==
            LET i1 == up(t, i, j)
                j1 == down(t, i1, j)
            IN IF i1 > j1 THEN [s |-> swap(t, j1, a), mid |-> j1]
               ELSE loop(swap(t, i1, j1), i1 + 1, j1 - 1)
    IN IF i0 > j0 THEN [s |-> swap(s0, j0, a), mid |-> j0]
       ELSE loop(swap(s0, i0, j0), i0 + 1, j0 - 1)

\* pdqsort_func on s[a:b], for slices whose parts fall to insertion sort
\* after one partition (up to 13 elements); partialInsertionSort_func leaves
\* a slice of fewer than 50 elements alone and tells whether it is sorted
RECURSIVE pdqsort(_, _, _)
pdqsort(s, a, b) ==
    IF b - a <= maxInsertion THEN insertionSort(s, a, b)
    ELSE LET c == choosePivot(s, a, b)
             sorted == \A i \in (a + 1)..(b - 1) :
                          ~(Priority(s[i + 1]) > Priority(s[i]))
             p == partition(s, a, b, c.pivot)
         IN IF c.increasing /\ sorted THEN s
            ELSE pdqsort(pdqsort(p.s, a, p.mid), p.mid + 1, b)

\* RegisterSource run from Lock to Unlock: the append, then sort.Slice over
\* the whole slice
registerSource(e, h, source) ==
    LET a == appendSource(e, h, source)
        arr == a.e.sources.arr
        n == a.e.sources.len
        sorted == pdqsort(SubSeq(a.h[arr], 1, n), 0, n)
    IN [e |-> a.e,
        h |-> [a.h EXCEPT ![arr] = [i \in 1..a.e.sources.cap |->
                                       IF i <= n THEN sorted[i] ELSE a.h[arr][i]]]]

\* the sources of a slice header
sourcesOf(h, hdr) == IF hdr.len = 0 THEN <<>> ELSE SubSeq(h[hdr.arr], 1, hdr.len)

\* the sources at start-up: NewSchemaSource, NewHistorySource, NewAISource
NewSources ==
    [schema |-> [tables |-> <<>>, columns |-> <<>>],
     history |-> <<>>,
     ai |-> [enabled |-> FALSE, provider |-> FALSE, cache |-> [k \in {} |-> <<>>]]]

\* no Complete call yet.  The field seen only records what happened: the
\* registry's sources when the header was copied.
NoRequest ==
    [pc |-> "idle", ctx |-> buildContext("", 0, "", <<>>),
     snap |-> [arr |-> NoArray, len |-> 0, cap |-> 0], i |-> 0,
     gor |-> <<>>, allItems |-> <<>>, result |-> <<>>, hit |-> FALSE,
     seen |-> <<>>]

NoRegister == [pc |-> "idle", j |-> 0]

\* the engine as constructed, nothing registered
EngineAtStart ==
    /\ engine = NewEngine
    /\ heap = <<>>
    /\ reg = NoRegister
    /\ srcs = NewSources
    /\ req = NoRequest
    /\ nreq = 0

--------------------------------------------------------------------------
(* Engine.Complete, step by step.  The caller runs buildContext, the cache *)
(* lookup, the copy of the sources header, the loop that starts one        *)
(* goroutine per source, wg.Wait, and the filter/sort/cap/store.           *)

\* the inputs of the runs
Queries ==
    {[query |-> "", cursor |-> 0],
     [query |-> "SELECT * FROM Set", cursor |-> 17],
     [query |-> "x\n select * from Set", cursor |-> 20]}
TableSets == {<<>>, <<"users", "settings">>}
AIResponses == {"1. settings\n2. set_id\n"}
\* what a caller's own Source returns, with or without an error: one item
\* without a FilterText and one whose FilterText is not its label
CustomItems ==
    {<<Item("Setup", "setup ", "Snippet", "custom", 10, ""),
       Item("Settle", "settle", "Snippet", "custom", 95, "zz")>>}
AITimeout == 3

\* a goroutine started by the fan-out loop.  The field called only records
\* that the goroutine's source has called the AI provider.
Goroutine(source) ==
    [src |-> source, st |-> "ready", out |-> "none", items |-> <<>>, elapsed |-> 0,
     called |-> FALSE]

\* a goroutine that appends what its source returned whatever the error
goReturnKeepsItems(r, g, items, err) ==
    [r EXCEPT !.gor[g] = [@ EXCEPT !.st = "done", !.out = err, !.items = items],
              !.allItems = @ \o items]

\* the goroutine's source returned (items, err), err being "ok" for nil:
\* with an error the goroutine returns at once, otherwise the items are
\* appended to allItems under itemsMu
goReturn(r, g, items, err) ==
    [r EXCEPT !.gor[g] = [@ EXCEPT !.st = "done", !.out = err, !.items = items],
              !.allItems = IF err = "ok" THEN @ \o items ELSE @]

\* Complete(query, cursor, database, tables): buildContext
CompleteStart ==
    /\ req.pc \in {"idle", "done"}
    /\ nreq < MaxRequests
    /\ \E q \in Queries :
          req' = [NoRequest EXCEPT
                     !.pc = "lookup",
                     !.ctx = buildContext(q.query, q.cursor, "db", srcs.schema.tables)]
    /\ nreq' = nreq + 1
    /\ UNCHANGED <<engine, heap, reg, srcs, editorVars>>

\* the cache lookup under cacheMu.RLock: a hit returns the stored list
CacheLookup ==
    /\ req.pc = "lookup"
    /\ req' = IF cacheKey(req.ctx) \in DOMAIN engine.cache
              THEN [req EXCEPT !.pc = "done", !.hit = TRUE,
                               !.result = engine.cache[cacheKey(req.ctx)]]
              ELSE [req EXCEPT !.pc = "snapshot"]
    /\ UNCHANGED <<engine, heap, reg, srcs, nreq, editorVars>>

\* sources := e.sources under mu.RLock: the header is copied, not the array
SnapshotSources ==
    /\ req.pc = "snapshot"
    /\ reg.pc = "idle"
    /\ req' = [req EXCEPT !.snap = engine.sources,
                          !.seen = sourcesOf(heap, engine.sources),
                          !.pc = IF engine.sources.len = 0 THEN "wait" ELSE "fanout"]
    /\ UNCHANGED <<engine, heap, reg, srcs, nreq, editorVars>>

\* one iteration of for _, source := range sources: the element is read from
\* the backing array now, and its goroutine starts
Spawn ==
    /\ req.pc = "fanout"
    /\ req' = [req EXCEPT !.gor = Append(@, Goroutine(heap[req.snap.arr][req.i + 1])),
                          !.i = @ + 1,
                          !.pc = IF req.i + 1 = req.snap.len THEN "wait" ELSE "fanout"]
    /\ UNCHANGED <<engine, heap, reg, srcs, nreq, editorVars>>

\* a goroutine calls KeywordSource, SchemaSource or HistorySource
SourceRun ==
    /\ \E g \in 1..Len(req.gor) :
          /\ req.gor[g].st = "ready"
          /\ req.gor[g].src \in {"keywords", "schema", "history"}
          /\ req' = goReturn(req, g,
                        CASE req.gor[g].src = "keywords" -> KeywordComplete(req.ctx)
                          [] req.gor[g].src = "schema" -> SchemaComplete(srcs.schema, req.ctx)
                          [] OTHER -> HistoryComplete(srcs.history, req.ctx),
                        "ok")
    /\ UNCHANGED <<engine, heap, reg, srcs, nreq, editorVars>>

\* a goroutine calls the caller's own Source, which may return an error,
\* with or without items
CustomRun ==
    /\ \E g \in 1..Len(req.gor) :
          /\ req.gor[g].st = "ready"
          /\ req.gor[g].src = "custom"
          /\ \E items \in CustomItems, err \in {"ok", "error"} :
                req' = goReturn(req, g, items, err)
    /\ UNCHANGED <<engine, heap, reg, srcs, nreq, editorVars>>

\* a getFromCache that does not look at the entry's age
aiCachedAnyAge(ai, key) == key \in DOMAIN ai.cache

\* AISource.getFromCache: an entry not older than five minutes
aiCached(ai, key) == key \in DOMAIN ai.cache /\ ai.cache[key].fresh

\* AISource.Complete up to the select: nothing when disabled or the word is
\* shorter than three bytes, the cached items, else the provider is called
AIRun ==
    /\ \E g \in 1..Len(req.gor) :
          /\ req.gor[g].st = "ready"
          /\ req.gor[g].src = "ai"
          /\ req' = IF ~srcs.ai.enabled \/ ~srcs.ai.provider
                       \/ Len(req.ctx.Word) < AIMinWord
                    THEN goReturn(req, g, <<>>, "ok")
                    ELSE IF aiCached(srcs.ai, aiCacheKey(req.ctx))
                    THEN goReturn(req, g, srcs.ai.cache[aiCacheKey(req.ctx)].items, "ok")
                    ELSE [req EXCEPT !.gor[g].st = "calling", !.gor[g].called = TRUE]
    /\ UNCHANGED <<engine, heap, reg, srcs, nreq, editorVars>>

\* a second passes while the AI source waits in its select
AITick ==
    /\ \E g \in 1..Len(req.gor) :
          /\ req.gor[g].st = "calling"
          /\ req.gor[g].elapsed < AITimeout
          /\ req' = [req EXCEPT !.gor[g].elapsed = @ + 1]
    /\ UNCHANGED <<engine, heap, reg, srcs, nreq, editorVars>>

\* the provider answers: the response is parsed, cached and returned
AIRespond ==
    /\ \E g \in 1..Len(req.gor), response \in AIResponses :
          /\ req.gor[g].st = "calling"
          /\ req' = goReturn(req, g, parseResponse(response), "ok")
          /\ srcs' = [srcs EXCEPT !.ai.cache =
                        [k \in DOMAIN @ \cup {aiCacheKey(req.ctx)} |->
                            IF k = aiCacheKey(req.ctx)
                            THEN [items |-> parseResponse(response), fresh |-> TRUE]
                            ELSE @[k]]]
    /\ UNCHANGED <<engine, heap, reg, nreq, editorVars>>

\* the provider fails: the AI source returns its error
AIFail ==
    /\ \E g \in 1..Len(req.gor) :
          /\ req.gor[g].st = "calling"
          /\ req' = goReturn(req, g, <<>>, "error")
    /\ UNCHANGED <<engine, heap, reg, srcs, nreq, editorVars>>

\* an AI source whose select has no deadline case
AIDeadlineNever == FALSE /\ UNCHANGED vars

\* the three seconds of context.WithTimeout are over: the AI source returns
\* the context's error and abandons the provider call
AIDeadline ==
    /\ \E g \in 1..Len(req.gor) :
          /\ req.gor[g].st = "calling"
          /\ req.gor[g].elapsed = AITimeout
          /\ req' = goReturn(req, g, <<>>, "deadline")
    /\ UNCHANGED <<engine, heap, reg, srcs, nreq, editorVars>>

\* wg.Wait returns when every goroutine has called wg.Done
Join ==
    /\ req.pc = "wait"
    /\ \A g \in 1..Len(req.gor) : req.gor[g].st = "done"
    /\ req' = [req EXCEPT !.pc = "finish"]
    /\ UNCHANGED <<engine, heap, reg, srcs, nreq, editorVars>>

\* filter by the word, sort, cap, store under cacheMu.Lock, return
Finish ==
    /\ req.pc = "finish"
    /\ LET result == finishComplete(req.allItems, req.ctx.Word)
       IN /\ req' = [req EXCEPT !.pc = "done", !.result = result]
          /\ engine' = [engine EXCEPT !.cache =
                          [k \in DOMAIN @ \cup {cacheKey(req.ctx)} |->
                              IF k = cacheKey(req.ctx) THEN result ELSE @[k]]]
    /\ UNCHANGED <<heap, reg, srcs, nreq, editorVars>>

\* Engine.ClearCache
ClearCache ==
    /\ engine' = [engine EXCEPT !.cache = [k \in {} |-> <<>>]]
    /\ UNCHANGED <<heap, reg, srcs, req, nreq, editorVars>>

\* SchemaSource.LoadFromStrings.  The sources keep their settings without a
\* lock: they are changed by the goroutine that calls Complete, between calls.
LoadFromStrings ==
    /\ req.pc \in {"idle", "done"}
    /\ \E t \in TableSets : srcs' = [srcs EXCEPT !.schema.tables = t]
    /\ UNCHANGED <<engine, heap, reg, req, nreq, editorVars>>

\* AISource.SetEnabled
SetEnabled ==
    /\ req.pc \in {"idle", "done"}
    /\ \E b \in BOOLEAN : srcs' = [srcs EXCEPT !.ai.enabled = b]
    /\ UNCHANGED <<engine, heap, reg, req, nreq, editorVars>>

\* five minutes pass since an AI response was cached
AIEntryExpires ==
    /\ req.pc \in {"idle", "done"}
    /\ \E k \in DOMAIN srcs.ai.cache :
          /\ srcs.ai.cache[k].fresh
          /\ srcs' = [srcs EXCEPT !.ai.cache[k].fresh = FALSE]
    /\ UNCHANGED <<engine, heap, reg, req, nreq, editorVars>>

\* the engine after start-up: the sources registered one after the other and
\* the AI source given its provider (SetProvider)
RegisterAll(order) ==
    LET RECURSIVE Fold(_, _)
        Fold(i, st) == IF i > Len(order) THEN st
                       ELSE Fold(i + 1, registerSource(st.e, st.h, order[i]))
    IN Fold(1, [e |-> NewEngine, h |-> <<>>])

StartupOrder == <<"keywords", "schema", "ai", "custom">>

InitEngine ==
    /\ editor = NewEditor
    /\ clipboard = ""
    /\ nkeys = 0
    /\ popup = NewCompletionPopup
    /\ engine = RegisterAll(StartupOrder).e
    /\ heap = RegisterAll(StartupOrder).h
    /\ reg = NoRegister
    /\ srcs = [NewSources EXCEPT !.ai.enabled = TRUE, !.ai.provider = TRUE]
    /\ req = NoRequest
    /\ nreq = 0

CompleteStep ==
    \/ CompleteStart \/ CacheLookup \/ SnapshotSources \/ Spawn
    \/ SourceRun \/ CustomRun \/ AIRun \/ AITick \/ AIRespond \/ AIFail
    \/ AIDeadline \/ Join \/ Finish

NextEngine ==
    \/ CompleteStep
    \/ ClearCache \/ LoadFromStrings \/ SetEnabled \/ AIEntryExpires

SpecEngine == InitEngine /\ [][NextEngine]_vars

\* the steps of a call that neither wait for the AI provider nor compute a
\* source's items or the merged list
CompleteProgress ==
    \/ CacheLookup \/ SnapshotSources \/ Spawn \/ CustomRun
    \/ AIRun \/ AITick \/ AIDeadline \/ Join

\* SourceRun can be taken
SourceReady ==
    \E g \in 1..Len(req.gor) :
        req.gor[g].st = "ready" /\ req.gor[g].src \in {"keywords", "schema", "history"}

\* A step of Complete that can be taken is taken in the end: the scheduler
\* runs every goroutine, the sources other than the AI source return, time
\* passes.  Nothing makes the AI provider answer.  The weak fairness of
\* SourceRun and of Finish is written with their enabling conditions, which
\* only their own steps end.
FairSpecEngine ==
    /\ SpecEngine
    /\ WF_vars(CompleteProgress)
    /\ []<>(~SourceReady)
    /\ []<>(req.pc # "finish")

--------------------------------------------------------------------------
(* RegisterSource, concurrent with Complete.  It holds mu from the append  *)
(* to the end of the sort; the loop of Complete reads the array unlocked.  *)

AllSources == {"schema", "history", "keywords", "ai"}

\* mu.Lock and the append; each source is registered once
RegisterLock ==
    /\ reg.pc = "idle"
    /\ \E source \in AllSources :
          /\ \A i \in 1..engine.sources.len : heap[engine.sources.arr][i] # source
          /\ LET a == appendSource(engine, heap, source)
             IN /\ engine' = a.e
                /\ heap' = a.h
                /\ reg' = [pc |-> "sort", j |-> a.e.sources.len - 1]
    /\ UNCHANGED <<srcs, req, nreq, editorVars>>

\* one exchange of the sort
RegisterSwap ==
    /\ reg.pc = "sort"
    /\ sortPending(heap, engine.sources.arr, reg.j)
    /\ heap' = sortStep(heap, engine.sources.arr, reg.j)
    /\ reg' = [reg EXCEPT !.j = @ - 1]
    /\ UNCHANGED <<engine, srcs, req, nreq, editorVars>>

\* the sort is over: mu.Unlock
RegisterUnlock ==
    /\ reg.pc = "sort"
    /\ ~sortPending(heap, engine.sources.arr, reg.j)
    /\ reg' = NoRegister
    /\ UNCHANGED <<engine, heap, srcs, req, nreq, editorVars>>

\* the engine as constructed: nothing registered, the AI source without a
\* provider
InitRegistry ==
    /\ editor = NewEditor
    /\ clipboard = ""
    /\ nkeys = 0
    /\ popup = NewCompletionPopup
    /\ EngineAtStart

NextRegistry ==
    \/ RegisterLock \/ RegisterSwap \/ RegisterUnlock
    \/ CompleteStart \/ CacheLookup \/ SnapshotSources \/ Spawn
    \/ SourceRun \/ AIRun \/ Join \/ Finish

SpecRegistry == InitRegistry /\ [][NextRegistry]_vars

--------------------------------------------------------------------------
(* RegisterSource, call after call: the schema source and twelve sources   *)
(* of a caller, all of priority PriorityCustom.  The caller's sources come *)
(* from two packages, each registering its own in a fixed order.  reg.order*)
(* only records the sources in the order of their registration.            *)

PluginsA == <<"a1", "a2", "a3", "a4", "a5", "a6">>
PluginsB == <<"b1", "b2", "b3", "b4", "b5", "b6">>

\* the sources of seq that are registered
Registered(seq) == {i \in 1..Len(seq) : \E k \in 1..Len(reg.order) : reg.order[k] = seq[i]}

\* the sources that can be registered next
NextToRegister ==
    ({"schema"} \ {reg.order[k] : k \in 1..Len(reg.order)})
    \cup {PluginsA[i] : i \in {Cardinality(Registered(PluginsA)) + 1} \cap 1..Len(PluginsA)}
    \cup {PluginsB[i] : i \in {Cardinality(Registered(PluginsB)) + 1} \cap 1..Len(PluginsB)}

\* one call of RegisterSource
RegisterCall ==
    /\ \E source \in NextToRegister :
          /\ engine' = registerSource(engine, heap, source).e
          /\ heap' = registerSource(engine, heap, source).h
          /\ reg' = [reg EXCEPT !.order = Append(@, source)]
    /\ UNCHANGED <<srcs, req, nreq, editorVars>>

InitRegister ==
    /\ editor = NewEditor
    /\ clipboard = ""
    /\ nkeys = 0
    /\ popup = NewCompletionPopup
    /\ engine = NewEngine
    /\ heap = <<>>
    /\ reg = [pc |-> "idle", j |-> 0, order |-> <<>>]
    /\ srcs = NewSources
    /\ req = NoRequest
    /\ nreq = 0

NextRegister == RegisterCall

SpecRegister == InitRegister /\ [][NextRegister]_vars

--------------------------------------------------------------------------
(* HistorySource.AddQuery, call after call, on a history that 99 calls     *)
(* have filled: one more new query fills it, the next evicts.              *)

\* NewHistorySource: maxSize
HistoryMaxSize == 100

\* AddQuery without the trim to maxSize
AddQueryUnbounded(history, query0) ==
    LET query == TrimSpace(query0)
    IN IF query = "" THEN history
       ELSE <<query>> \o SelectSeq(history, LAMBDA q : q # query)

\* HistorySource.AddQuery: the trimmed query leaves its old place (the
\* history holds it once at most), goes to the front, and the list is cut to
\* maxSize
AddQuery(history, query0) ==
    LET query == TrimSpace(query0)
        hits == {i \in 1..Len(history) : history[i] = query}
        first == CHOOSE i \in hits : \A j \in hits : i <= j
        removed == IF hits = {} THEN history
                   ELSE SubSeq(history, 1, first - 1)
                        \o SubSeq(history, first + 1, Len(history))
        added == <<query>> \o removed
    IN IF query = "" THEN history
       ELSE IF Len(added) > HistoryMaxSize THEN SubSeq(added, 1, HistoryMaxSize)
       ELSE added

\* the history after AddQuery of q01, q02, .. q99 in this order: 99 distinct
\* queries, the last one first
ExecutedQuery(i) == "q" \o CharAt(Digits, i \div 10) \o CharAt(Digits, i % 10)
FilledHistory ==
    [i \in 1..(HistoryMaxSize - 1) |-> ExecutedQuery(HistoryMaxSize - i)]

\* the queries the runs execute: the oldest and two in the middle again,
\* with blanks around them, two new ones, and blank ones
QueryPool == {" q01 ", "q50", "\tq75", "new1", "new2\n", "  ", ""}

\* one AddQuery call
AddQueryCall ==
    /\ \E query \in QueryPool : srcs' = [srcs EXCEPT !.history = AddQuery(@, query)]
    /\ UNCHANGED <<engine, heap, reg, req, nreq, editorVars>>

InitHistory ==
    /\ editor = NewEditor
    /\ clipboard = ""
    /\ nkeys = 0
    /\ popup = NewCompletionPopup
    /\ engine = NewEngine
    /\ heap = <<>>
    /\ reg = NoRegister
    /\ srcs = [NewSources EXCEPT !.history = FilledHistory]
    /\ req = NoRequest
    /\ nreq = 0

NextHistory == AddQueryCall

SpecHistory == InitHistory /\ [][NextHistory]_vars

--------------------------------------------------------------------------
(* AISource.Complete, call after call: an engine whose only source is the  *)
(* AI source.  The engine's cache is cleared at will, so that a query asked *)
(* again reaches the source.                                               *)

MaxAICalls == 3

\* a word of three letters, one of two, and the two characters n and U+00BA,
\* which are three bytes
AIQueries ==
    {[query |-> "SELECT * FROM Set", cursor |-> 17],
     [query |-> "SELECT * FROM Se", cursor |-> 16],
     [query |-> "SELECT nÂº", cursor |-> 10]}

AICompleteStart ==
    /\ req.pc \in {"idle", "done"}
    /\ nreq < MaxAICalls
    /\ \E q \in AIQueries :
          req' = [NoRequest EXCEPT
                     !.pc = "lookup",
                     !.ctx = buildContext(q.query, q.cursor, "db", srcs.schema.tables)]
    /\ nreq' = nreq + 1
    /\ UNCHANGED <<engine, heap, reg, srcs, editorVars>>

\* AISource.ClearCache
AIClearCache ==
    /\ req.pc \in {"idle", "done"}
    /\ srcs' = [srcs EXCEPT !.ai.cache = [k \in {} |-> <<>>]]
    /\ UNCHANGED <<engine, heap, reg, req, nreq, editorVars>>

\* AISource.SetProvider
SetProvider ==
    /\ req.pc \in {"idle", "done"}
    /\ \E b \in BOOLEAN : srcs' = [srcs EXCEPT !.ai.provider = b, !.ai.enabled = b]
    /\ UNCHANGED <<engine, heap, reg, req, nreq, editorVars>>

InitAI ==
    /\ editor = NewEditor
    /\ clipboard = ""
    /\ nkeys = 0
    /\ popup = NewCompletionPopup
    /\ engine = RegisterAll(<<"ai">>).e
    /\ heap = RegisterAll(<<"ai">>).h
    /\ reg = NoRegister
    /\ srcs = [NewSources EXCEPT !.ai.enabled = TRUE, !.ai.provider = TRUE]
    /\ req = NoRequest
    /\ nreq = 0

NextAI ==
    \/ AICompleteStart \/ CacheLookup \/ SnapshotSources \/ Spawn
    \/ AIRun \/ AITick \/ AIRespond \/ AIFail \/ AIDeadline \/ Join \/ Finish
    \/ ClearCache \/ AIClearCache \/ SetEnabled \/ SetProvider \/ AIEntryExpires

SpecAI == InitAI /\ [][NextAI]_vars

--------------------------------------------------------------------------
(* The editor driven by key events: Editor.Update dispatches on the mode.  *)

NormalKeys == {keySelectAll, "i", "v", "h", "l", "x", "u", "ctrl+r", "p",
               keyUndo, keyRedo, keyPaste, "0", "$", "alt+up", "alt+down",
               "ctrl+d", "ctrl+k"}
VisualKeys == {"esc", "h", "l", "y", "d", "x"}
InsertKeys == {"esc", keySelectAll, "shift+left", "shift+right", keyUndo,
               keyRedo, keyCopy, keyPaste, keyCut, keyWord, "tab", "left",
               "right", "backspace"} \cup TypedChars

\* the handler's result becomes the editor
Apply(n) ==
    /\ nkeys < MaxKeys
    /\ nkeys' = nkeys + 1
    /\ editor' = n
    /\ UNCHANGED <<popup, engineVars>>

InitEditor ==
    /\ editor = NewEditor
    /\ clipboard = ""
    /\ nkeys = 0
    /\ popup = NewCompletionPopup
    /\ EngineAtStart

\* a key event in Normal mode
NormalKey ==
    /\ ~editor.panicked
    /\ editor.mode = ModeNormal
    /\ \E key \in NormalKeys, clipErr \in BOOLEAN :
          Apply(updateNormal(editor, key, clipboard, clipErr))
    /\ UNCHANGED clipboard

\* a key event in Visual mode; y, d and x write the clipboard
VisualKey ==
    /\ ~editor.panicked
    /\ editor.mode = ModeVisual
    /\ \E key \in VisualKeys :
          /\ Apply(updateVisual(editor, key))
          /\ clipboard' = IF key \in {"y", "d", "x"}
                          THEN copyToClipboard(editor, clipboard)
                          ELSE clipboard

\* a key event in Insert mode; copy and cut write the clipboard
InsertKey ==
    /\ ~editor.panicked
    /\ editor.mode = ModeInsert
    /\ \E key \in InsertKeys, clipErr \in BOOLEAN :
          /\ Apply(updateInsert(editor, key, clipboard, clipErr))
          /\ clipboard' = IF key \in {keyCopy, keyCut}
                          THEN copyToClipboard(editor, clipboard)
                          ELSE clipboard

NextEditor == NormalKey \/ VisualKey \/ InsertKey

SpecEditor == InitEditor /\ [][NextEditor]_vars

--------------------------------------------------------------------------
(* The editor under Editor.Update, for one part of its keys at a time.  A  *)
(* run starts from a buffer that SetValue has loaded, as the program does   *)
(* with a saved query, and in some runs from the keys of a prefix typed     *)
(* after it.                                                               *)

\* the editor after the keys of a sequence
RECURSIVE Typed(_, _)
Typed(e, keys) ==
    IF keys = <<>> THEN e
    ELSE Typed(Update(e, KeyMsg(Head(keys)), "", FALSE), Tail(keys))

\* one of the messages reaches Update
Event(msgs) ==
    /\ ~editor.panicked
    /\ \E msg \in msgs, clipErr \in BOOLEAN :
          /\ Apply(Update(editor, msg, clipboard, clipErr))
          /\ clipboard' = UpdateClipboard(editor, msg, clipboard)

\* the editor with the buffer b loaded and the keys of prefix typed
Loaded(b, prefix) ==
    /\ editor = Typed(SetValue(NewEditor, b), prefix)
    /\ clipboard = ""
    /\ nkeys = 0
    /\ popup = NewCompletionPopup
    /\ EngineAtStart

\* search: a line with two matches of FROM, two lines with one each, and a
\* line in which the matches of aa overlap
SearchBuffers == {"SELECT * FROM users FROM orders", "FROM a\nFROM b", "aaa"}
SearchPrefixes == {<<>>, <<"ctrl+f", "F", "R", "O">>}
SearchKeys == {"ctrl+f", "M", "a", "backspace", "f3", "shift+f3", "enter", "esc",
               "tab", "ctrl+enter", "ctrl+h"}

InitSearch == \E b \in SearchBuffers, prefix \in SearchPrefixes : Loaded(b, prefix)
SearchKey == Event({KeyMsg(key) : key \in SearchKeys})
NextSearch == SearchKey
SpecSearch == InitSearch /\ [][NextSearch]_vars

\* indentation and comments: lines without indentation, with two spaces,
\* with one, commented with and without a space, and a buffer typed in
\* Insert mode
IndentBuffers == {"", "a\nb\nc", "  a\n b", "--x\n  -- y"}
IndentKeys == {"v", "h", "k", "j", "tab", "shift+tab", "esc", keySelectAll, "ctrl+/",
               "i", "n"}

InitIndent == \E b \in IndentBuffers : Loaded(b, <<>>)
IndentKey == Event({KeyMsg(key) : key \in IndentKeys})
NextIndent == IndentKey
SpecIndent == InitIndent /\ [][NextIndent]_vars

\* modes and selection: keys of every mode, the prompts, and the mouse at
\* the start of the first line and in the second column of the second
MaxEvents == 4
UpdateBuffers == {"", "ab\ncd"}
UpdateKeys == {"i", "v", keySelectAll, "h", "x", "y", "esc", "ctrl+[",
               "shift+left", "n", keyCut, "ctrl+f", "ctrl+g", "f3", "enter"}
MouseTypes == {"MouseLeft", "MouseRelease", "MouseWheelUp", "MouseWheelDown"}
UpdateEvents ==
    {KeyMsg(key) : key \in UpdateKeys}
    \cup {MouseMsg(type, p[1], p[2]) : type \in MouseTypes, p \in {<<0, 0>>, <<1, 1>>}}

InitUpdate == \E b \in UpdateBuffers : Loaded(b, <<>>)
UpdateKey ==
    /\ nkeys < MaxEvents
    /\ Event({msg \in UpdateEvents : msg.kind = "key"})
UpdateMouse ==
    /\ nkeys < MaxEvents
    /\ Event({msg \in UpdateEvents : msg.kind = "mouse"})
NextUpdate == UpdateKey \/ UpdateMouse
SpecUpdate == InitUpdate /\ [][NextUpdate]_vars

--------------------------------------------------------------------------
(* Completion in the editor: the buffer goes to Engine.Complete, the list  *)
(* to the popup, and tab accepts the selected item.                        *)

\* the buffers of the runs, and the tables a schema reload brings
Buffers == {"SELECT * FROM us", "us", "SELECT 1;\nselect * from us"}
AcceptTableSets == {<<"users">>, <<"usage", "users">>}

\* triggerCompletion: Complete is called with the editor's buffer and cursor
TriggerCompletion ==
    /\ req.pc \in {"idle", "done"}
    /\ nreq < MaxRequests
    /\ req' = [NoRequest EXCEPT
                  !.pc = "lookup",
                  !.ctx = buildContext(GetValue(editor), GetCursorPosition(editor),
                                       "db", srcs.schema.tables)]
    /\ nreq' = nreq + 1
    /\ UNCHANGED <<engine, heap, reg, srcs, editorVars>>

\* triggerCompletion: the list Complete returned goes to the popup
ShowCompletions ==
    /\ req.pc = "done"
    /\ popup # popupShow(req.result)
    /\ popup' = popupShow(req.result)
    /\ UNCHANGED <<editor, clipboard, nkeys, engineVars>>

\* down / ctrl+n and up / ctrl+p while the popup is visible
PopupMove ==
    /\ popup.visible
    /\ \/ popup' = popupMoveDown(popup)
       \/ popup' = popupMoveUp(popup)
    /\ UNCHANGED <<editor, clipboard, nkeys, engineVars>>

\* tab while the popup is visible: the selected item's InsertText replaces
\* the current word; the popup stays open
AcceptCompletion ==
    /\ popup.visible
    /\ popupHasSelected(popup)
    /\ nkeys < MaxKeys
    /\ nkeys' = nkeys + 1
    /\ editor' = ReplaceCurrentWord(editor, popup.items[popup.selected + 1].InsertText)
    /\ UNCHANGED <<clipboard, popup, engineVars>>

\* a schema reload between two calls: new tables, the cache cleared or not
ReloadSchema ==
    /\ req.pc \in {"idle", "done"}
    /\ \E t \in AcceptTableSets : srcs' = [srcs EXCEPT !.schema.tables = t]
    /\ UNCHANGED <<engine, heap, reg, req, nreq, editorVars>>

\* a buffer loaded with SetValue (the cursor at its end), the keyword and
\* schema sources registered, the schema loaded
AcceptOrder == <<"keywords", "schema">>

InitAccept ==
    /\ \E b \in Buffers : editor = SetValue(NewEditor, b)
    /\ clipboard = ""
    /\ nkeys = 0
    /\ popup = NewCompletionPopup
    /\ engine = RegisterAll(AcceptOrder).e
    /\ heap = RegisterAll(AcceptOrder).h
    /\ reg = NoRegister
    /\ \E t \in AcceptTableSets : srcs = [NewSources EXCEPT !.schema.tables = t]
    /\ req = NoRequest
    /\ nreq = 0

NextAccept ==
    \/ TriggerCompletion \/ ShowCompletions \/ PopupMove \/ AcceptCompletion
    \/ ReloadSchema
    \/ CacheLookup \/ SnapshotSources \/ Spawn \/ SourceRun \/ Join \/ Finish

SpecAccept == InitAccept /\ [][NextAccept]_vars

--------------------------------------------------------------------------
(* Claims about the undo history. *)

\* how many undos the round trip of C1 is tried with
MaxUndo == 3

RECURSIVE undoN(_, _)
undoN(e, n) == IF n = 0 THEN e ELSE undoN(undo(e), n - 1)
RECURSIVE redoN(_, _)
redoN(e, n) == IF n = 0 THEN e ELSE redoN(redo(e), n - 1)

\* C1: in every state the key events reach, N undos followed by N redos
\* (N >= 1) leave the buffer text and the cursor offset as they were.  Stated
\* for the N the history can take back (historyIndex >= N), where each undo
\* and each redo is a real step.
C1_UndoRedoRestores ==
    ~editor.panicked =>
        \A n \in 1..MaxUndo :
            editor.historyIndex >= n =>
                LET r == redoN(undoN(editor, n), n)
                IN /\ taValue(r.ta) = taValue(editor.ta)
                   /\ getCursorIndex(r) = getCursorIndex(editor)

\* the text half of C1 alone (also violated: typing since the last snapshot
\* is lost)
C1_UndoRedoRestoresText ==
    ~editor.panicked =>
        \A n \in 1..MaxUndo :
            editor.historyIndex >= n =>
                taValue(redoN(undoN(editor, n), n).ta) = taValue(editor.ta)

\* the cursor half of C1, for buffers that equal the current history entry
\* (also violated: on a buffer of several lines setCursorIndex stays on
\* the last row)
C1_UndoRedoRestoresCursor ==
    (~editor.panicked
        /\ taValue(editor.ta) = editor.history[editor.historyIndex + 1].Text
        /\ getCursorIndex(editor) = editor.history[editor.historyIndex + 1].Cursor) =>
        \A n \in 1..MaxUndo :
            editor.historyIndex >= n =>
                getCursorIndex(redoN(undoN(editor, n), n)) = getCursorIndex(editor)

\* C2 (state part): historyIndex names an entry, and adjacent entries differ
\* in their text.
C2_HistoryShape ==
    /\ 0 <= editor.historyIndex
    /\ editor.historyIndex < Len(editor.history)
    /\ \A i \in 1..(Len(editor.history) - 1) :
          editor.history[i].Text # editor.history[i + 1].Text

\* C2 (step part): when a handler appends to the history, the entries up to
\* the old index are kept, every entry after them is one the handler has just
\* taken (a handler takes at most two snapshots), and historyIndex points at
\* the last entry.
C2_AppendDropsRedoTail ==
    editor'.history # editor.history =>
        /\ SubSeq(editor'.history, 1, editor.historyIndex + 1)
              = SubSeq(editor.history, 1, editor.historyIndex + 1)
        /\ Len(editor'.history) \in {editor.historyIndex + 2, editor.historyIndex + 3}
        /\ editor'.historyIndex = Len(editor'.history) - 1
        /\ editor'.history[Len(editor'.history)].Text \in
              {taValue(editor.ta), taValue(editor'.ta)}

\* C2: after NewEditor and any sequence of operations the history is well
\* formed (historyIndex names an entry, adjacent entries differ in text), and
\* an append discards the redo tail first.
C2_History == [](C2_HistoryShape) /\ [][C2_AppendDropsRedoTail]_vars

\* C2 witness: a redo tail exists, the buffer differs from the current entry
\* so that the next snapshot appends, and a key can still come
C2_Witness ==
    /\ editor.historyIndex < Len(editor.history) - 1
    /\ taValue(editor.ta) # editor.history[editor.historyIndex + 1].Text
    /\ snapshot(editor).history # editor.history
    /\ editor.mode = ModeInsert
    /\ nkeys < MaxKeys

--------------------------------------------------------------------------
(* Claims about Engine.Complete. *)

\* the sequences that list each element of S once
RECURSIVE Perms(_)
Perms(S) ==
    IF S = {} THEN {<<>>}
    ELSE UNION {{<<x>> \o p : p \in Perms(S \ {x})} : x \in S}

\* the items of the goroutines gs, in that order
RECURSIVE ItemsOf(_)
ItemsOf(gs) == IF gs = <<>> THEN <<>> ELSE req.gor[Head(gs)].items \o ItemsOf(Tail(gs))

\* a Complete call that went to the sources has returned
Fresh == req.pc = "done" /\ ~req.hit

\* C3: a source that returns an error contributes nothing, whatever items it
\* returned with the error, and takes nothing away: the result is the one
\* the call gives for the items of the sources that returned no error, in
\* some order of arrival.
C3_ErrorIsolation ==
    Fresh =>
        \E p \in Perms({g \in 1..Len(req.gor) : req.gor[g].out = "ok"}) :
            req.result = finishComplete(ItemsOf(p), req.ctx.Word)

\* a call returned a non-empty list although the AI source and the caller's
\* source failed, the latter with items in hand
C3_Witness ==
    /\ Fresh
    /\ req.result # <<>>
    /\ \E g \in 1..Len(req.gor) :
          req.gor[g].src = "custom" /\ req.gor[g].out = "error" /\ req.gor[g].items # <<>>
    /\ \E g \in 1..Len(req.gor) : req.gor[g].src = "ai" /\ req.gor[g].out = "error"

\* every goroutine of the fan-out has finished
C4_Joined ==
    (req.pc = "finish" \/ Fresh) =>
        /\ Len(req.gor) = req.snap.len
        /\ \A g \in 1..Len(req.gor) : req.gor[g].st = "done"

\* C4: Complete merges only after every source goroutine it started has
\* finished, and every call returns: the AI source gives up after its
\* three seconds even if the provider never answers.
C4_JoinAndReturn ==
    /\ [](C4_Joined)
    /\ (req.pc = "lookup") ~> (req.pc = "done")

\* a call returned after the AI source ran into its deadline
C4_Witness ==
    /\ Fresh
    /\ \E g \in 1..Len(req.gor) :
          /\ req.gor[g].src = "ai"
          /\ req.gor[g].out = "deadline"
          /\ req.gor[g].elapsed = 3

\* at most 20 items, in non-increasing score order
C5_Shape(items) ==
    /\ Len(items) <= 20
    /\ \A k \in 1..(Len(items) - 1) : items[k].Score >= items[k + 1].Score

\* C5: the list Complete returns, computed or cached, has at most 20 items
\* in non-increasing order of score.
C5_CappedSorted ==
    /\ req.pc = "done" => C5_Shape(req.result)
    /\ \A k \in DOMAIN engine.cache : C5_Shape(engine.cache[k])

\* more than 20 items were merged and 20 of several scores came back
C5_Witness ==
    /\ Fresh
    /\ Len(req.allItems) > 20
    /\ Len(req.result) = 20
    /\ req.result[1].Score > req.result[20].Score

\* how often x occurs in seq
Count(seq, x) == Cardinality({k \in 1..Len(seq) : seq[k] = x})

\* result is what is left of expected after sorting and the cut at 20
C6_TopOf(result, expected) ==
    /\ Len(result) = Min(20, Len(expected))
    /\ \A k \in 1..Len(result) : Count(result, result[k]) <= Count(expected, result[k])
    /\ \A k \in 1..Len(expected) :
          Count(result, expected[k]) < Count(expected, expected[k])
              => expected[k].Score <= result[Len(result)].Score

\* C6: with a non-empty word, an item stays only if its filter text (its
\* label when the filter text is empty) contains the word, letter case
\* ignored; it gains 100 when the text starts with the word and 50 otherwise.
\* With an empty word no item is dropped or changed.
C6_Filter ==
    Fresh =>
        LET w == ToLower(req.ctx.Word)
            text(it) == ToLower(IF it.FilterText = "" THEN it.Label ELSE it.FilterText)
            has(it) == Contains(text(it), w)
            kept == SelectSeq(req.allItems, has)
            expected == [k \in 1..Len(kept) |->
                            [kept[k] EXCEPT !.Score =
                                @ + (IF HasPrefix(text(kept[k]), w) THEN 100 ELSE 50)]]
        IN IF req.ctx.Word = "" THEN C6_TopOf(req.result, req.allItems)
           ELSE C6_TopOf(req.result, expected)

\* a call with a word in capitals kept an item for its start (by its label,
\* its filter text being empty), kept one for a match inside, dropped one
C6_Witness ==
    /\ Fresh
    /\ req.ctx.Word = "Set"
    /\ \E k \in 1..Len(req.result) :
          req.result[k].Label = "Setup" /\ req.result[k].Score = 110
    /\ \E k \in 1..Len(req.result) :
          req.result[k].Label = "OFFSET" /\ req.result[k].Score = 90
    /\ \E k \in 1..Len(req.allItems) : req.allItems[k].Label = "Settle"
    /\ \A k \in 1..Len(req.result) : req.result[k].Label # "Settle"

\* the item's text starts with the word / contains it elsewhere only
C8_Starts(it, word) == HasPrefix(ToLower(it.FilterText), ToLower(word))
C8_ContainsOnly(it, word) ==
    Contains(ToLower(it.FilterText), ToLower(word)) /\ ~C8_Starts(it, word)

\* in result, every table item that starts with the word stands before, and
\* scores more than, every item of the keyword source that only contains it
C8_Outranks(result, word) ==
    \A k, m \in 1..Len(result) :
        (/\ result[k].Source = "schema" /\ result[k].Kind = KindTable
         /\ C8_Starts(result[k], word)
         /\ result[m].Source = "keywords"
         /\ C8_ContainsOnly(result[m], word))
            => k < m /\ result[k].Score > result[m].Score

\* C8: a table item whose name starts with the current word outranks an
\* item of the keyword source that only contains the word: in every list a
\* call computes, and for the word "use" with the table "users" beside a
\* keyword item that has "use" inside; no such table item is cut from a list
\* that keeps such a keyword item.
C8_SchemaOutranksKeyword ==
    /\ Fresh =>
          /\ C8_Outranks(req.result, req.ctx.Word)
          /\ \A k \in 1..Len(req.allItems), m \in 1..Len(req.result) :
                (/\ req.allItems[k].Source = "schema"
                 /\ req.allItems[k].Kind = KindTable
                 /\ C8_Starts(req.allItems[k], req.ctx.Word)
                 /\ req.result[m].Source = "keywords"
                 /\ C8_ContainsOnly(req.result[m], req.ctx.Word))
                    => \E j \in 1..Len(req.result) :
                          req.result[j].Label = req.allItems[k].Label
    /\ LET r == finishComplete(
                   <<Item("PAUSE", "PAUSE ", KindKeyword, "keywords", ScoreKeyword, "PAUSE")>>
                   \o getTableItems(<<"users">>), "use")
       IN /\ Len(r) = 2
          /\ r[1].Label = "users"
          /\ r[2].Label = "PAUSE"
          /\ C8_Outranks(r, "use")

\* a call for the word "Set" returned the table "settings" ahead of the
\* keyword OFFSET
C8_Witness ==
    /\ Fresh
    /\ \E k, m \in 1..Len(req.result) :
          /\ req.result[k].Label = "settings" /\ req.result[k].Kind = KindTable
          /\ req.result[m].Label = "OFFSET" /\ req.result[m].Kind = KindKeyword
          /\ C8_ContainsOnly(req.result[m], req.ctx.Word)
          /\ k < m

\* the key of the cache for a word and a line prefix
C9_Key(word, linePrefix) == word \o "|" \o linePrefix

\* the contexts of the calls the runs make
C9_Contexts == {buildContext(q.query, q.cursor, "db", t) : q \in Queries, t \in TableSets}

\* a step of the cache lookup: with a list stored for the call's word and
\* line prefix, the call returns that list and has started no goroutine
C9_HitReturnsStored ==
    (req.pc = "lookup" /\ req'.pc # "lookup") =>
        IF C9_Key(req.ctx.Word, req.ctx.LinePrefix) \in DOMAIN engine.cache
        THEN /\ req'.pc = "done"
             /\ req'.result = engine.cache[C9_Key(req.ctx.Word, req.ctx.LinePrefix)]
             /\ req'.gor = <<>>
        ELSE req'.pc = "snapshot"

\* a step that empties a cache that held something leaves no entry
C9_ClearEmpties ==
    (engine.cache # engine'.cache /\ DOMAIN engine'.cache \subseteq DOMAIN engine.cache
     /\ req' = req)
        => DOMAIN engine'.cache = {}

\* a call that found nothing in the cache has gone to every source it saw
C9_MissInvokes ==
    Fresh => /\ Len(req.gor) = req.snap.len
             /\ \A g \in 1..Len(req.gor) : req.gor[g].out # "none"

\* entries are stored under word|linePrefix of some call, and two contexts
\* share a key only if they agree on both
C9_Keys ==
    /\ DOMAIN engine.cache \subseteq {C9_Key(c.Word, c.LinePrefix) : c \in C9_Contexts}
    /\ \A c, d \in C9_Contexts :
          cacheKey(c) = cacheKey(d) => c.Word = d.Word /\ c.LinePrefix = d.LinePrefix

\* C9: the cache is keyed by (currentWord, linePrefix) only.  A call whose
\* key has an entry returns the stored list without invoking a source,
\* whatever the query and the sources now are; contexts that differ in word
\* or line prefix never share an entry; ClearCache leaves no entry, and a
\* call that finds none invokes the sources.
C9_Cache ==
    /\ [][C9_HitReturnsStored /\ C9_ClearEmpties]_vars
    /\ [](C9_Keys /\ C9_MissInvokes)

\* a call for another query with the same word and line prefix got the list
\* stored when the schema had tables, although it has none now
C9_Witness ==
    /\ req.pc = "done"
    /\ req.hit
    /\ req.gor = <<>>
    /\ req.ctx.Query = "x\n select * from Set"
    /\ srcs.schema.tables = <<>>
    /\ \E k \in 1..Len(req.result) :
          req.result[k].Label = "settings" /\ req.result[k].Kind = KindTable

--------------------------------------------------------------------------
(* Claims about completion in the editor. *)

\* the tables of the call that start with its word
C7_Candidates ==
    {req.ctx.Tables[k] : k \in {j \in 1..Len(req.ctx.Tables) :
        HasPrefix(ToLower(req.ctx.Tables[j]), ToLower(req.ctx.Word))}}

\* the returned list has an item with label = insertText = t
C7_Offers(t) ==
    \E k \in 1..Len(req.result) : req.result[k].Label = t /\ req.result[k].InsertText = t

\* the call was made with the cursor at the end of a buffer that ends in a
\* word (the tables of its context are the tables the schema held)
C7_AtPartialWord ==
    req.pc = "done" /\ req.ctx.Cursor = Len(req.ctx.Query) /\ req.ctx.Word # ""

C7_OfferedInTableContext ==
    (/\ C7_AtPartialWord
     /\ ~req.hit
     /\ shouldSuggestTables(req.ctx.LinePrefix)
     /\ Len(filterItems(req.allItems, req.ctx.Word)) <= MaxResults)
        => \A t \in C7_Candidates : C7_Offers(t)

\* a step that accepts a table item t (label = insertText = t) which starts
\* with the word w the buffer ends in, the cursor at the end: w gives way to
\* t, the rest of the buffer stays, the cursor stands right after t
C7_AcceptReplacesWord ==
    LET v == GetValue(editor)
        w == extractWord(v, Len(v)).word
        it == popup.items[popup.selected + 1]
    IN (/\ nkeys' = nkeys + 1
        /\ popup.visible /\ popupHasSelected(popup)
        /\ GetCursorPosition(editor) = Len(v)
        /\ w # ""
        /\ it.Kind = KindTable /\ it.Label = it.InsertText
        /\ HasPrefix(ToLower(it.Label), ToLower(w)))
           => /\ GetValue(editor') = Slice(v, 0, Len(v) - Len(w)) \o it.Label
              /\ GetCursorPosition(editor') = Len(GetValue(editor'))

--------------------------------------------------------------------------
(* Claims about the registry. *)

\* the sources the goroutines of the call were started for, in loop order
Invoked == [g \in 1..Len(req.gor) |-> req.gor[g].src]

\* C10: a Complete that runs while sources are registered works on one
\* consistent snapshot of the registry: once its loop is over it has started
\* exactly one goroutine for each source the registry held when it copied
\* the slice, and for nothing else.
C10_ConsistentSnapshot ==
    (req.pc \in {"wait", "finish"} \/ Fresh) => Invoked = req.seen

\* the registry, first source first
Registry == sourcesOf(heap, engine.sources)

\* C11: after any sequence of RegisterSource calls the registry holds each
\* registered source once, in non-increasing order of priority, sources of
\* equal priority in the order of their registration.
C11_StableRegistry ==
    Registry = SortSeq(reg.order, LAMBDA x, y : Priority(x) > Priority(y))

\* the part of C11 that does not depend on the sort being stable: each
\* registered source once, in non-increasing order of priority
C11_SortedRegistry ==
    /\ Len(Registry) = Len(reg.order)
    /\ \A k \in 1..Len(reg.order) : \E i \in 1..Len(Registry) : Registry[i] = reg.order[k]
    /\ \A i \in 1..(Len(Registry) - 1) : Priority(Registry[i]) >= Priority(Registry[i + 1])

--------------------------------------------------------------------------
(* Claims about the history source. *)

\* at most 100 entries, no two equal, none empty
C12_Bounded ==
    /\ Len(srcs.history) <= 100
    /\ \A i, j \in 1..Len(srcs.history) : i # j => srcs.history[i] # srcs.history[j]
    /\ \A i \in 1..Len(srcs.history) : srcs.history[i] # ""

\* h2 is h1 after the query t went to the front: t first, then the other
\* entries of h1 in their order, all of them or all but the last
C12_MovedToFront(h1, h2, t) ==
    LET others == SelectSeq(h1, LAMBDA q : q # t)
    IN /\ h2[1] = t
       /\ Tail(h2) = IF Len(others) >= 100 THEN SubSeq(others, 1, 99) ELSE others

\* a step that changes the history puts one query of the pool, trimmed and
\* not blank, in front; and every non-blank query of the pool is in front
\* once it is added
C12_AddStep ==
    /\ srcs'.history # srcs.history =>
          \E query \in QueryPool :
              /\ TrimSpace(query) # ""
              /\ C12_MovedToFront(srcs.history, srcs'.history, TrimSpace(query))
    /\ \A query \in QueryPool :
          TrimSpace(query) # "" =>
              C12_MovedToFront(srcs.history, AddQuery(srcs.history, query), TrimSpace(query))
    /\ \A query \in QueryPool :
          TrimSpace(query) = "" => AddQuery(srcs.history, query) = srcs.history

\* C12: the history never holds more than 100 entries, no entry twice and no
\* empty one, and is most-recent-first: AddQuery puts the trimmed query at
\* index 0, taking it from its old place, keeps the order of the others, and
\* drops the last entry when there would be 101.
C12_History == [](C12_Bounded) /\ [][C12_AddStep]_vars

\* the history is full, its oldest entries q01 and q02 were evicted by new
\* queries, and q01 is back in front
C12_Witness ==
    /\ Len(srcs.history) = 100
    /\ srcs.history[1] = "q01"
    /\ srcs.history[100] = "q03"
    /\ \E i \in 1..100 : srcs.history[i] = "new2"
    /\ \A i \in 1..100 : srcs.history[i] # "q02"

--------------------------------------------------------------------------
(* Claims about the AI source. *)

\* the characters of a string of bytes: the bytes that are not continuation
\* bytes of UTF-8 (0x80 to 0xBF; a word holds none but these three)
ContinuationBytes == {"ª", "µ", "º"}
Characters(s) == Cardinality({i \in 1..Len(s) : SubSeq(s, i, i) \notin ContinuationBytes})

AIGoroutines == {g \in 1..Len(req.gor) : req.gor[g].src = "ai"}

\* C13: AISource.Complete with a current word shorter than 3 characters, or
\* while the source is disabled or has no provider, returns no items and no
\* error and never calls the provider, whatever its cache holds.
C13_ShortWord ==
    \A g \in AIGoroutines :
        /\ req.gor[g].st = "calling"
              => /\ srcs.ai.enabled
                 /\ srcs.ai.provider
                 /\ Characters(req.ctx.Word) >= AIMinWord
        /\ req.gor[g].st = "done" /\ Characters(req.ctx.Word) < AIMinWord
              => req.gor[g].items = <<>> /\ req.gor[g].out = "ok"

\* the same with the length of the word counted in bytes, as len does
C13_ShortWordBytes ==
    \A g \in AIGoroutines :
        /\ req.gor[g].st = "calling"
              => /\ srcs.ai.enabled
                 /\ srcs.ai.provider
                 /\ Len(req.ctx.Word) >= AIMinWord
        /\ req.gor[g].st = "done" /\ Len(req.ctx.Word) < AIMinWord
              => req.gor[g].items = <<>> /\ req.gor[g].out = "ok"

\* the AI source runs in goroutine g: from ready to done or to the provider
AIReturns(g) ==
    /\ g \in AIGoroutines
    /\ req.gor[g].st = "ready"
    /\ g \in 1..Len(req'.gor)
    /\ req'.gor[g].st # "ready"

C14_Key == aiCacheKey(req.ctx)

\* the source is enabled, has a provider and a word of three bytes or more
C14_Asked ==
    srcs.ai.enabled /\ srcs.ai.provider /\ Len(req.ctx.Word) >= AIMinWord

\* an entry for the key of the call that is not older than five minutes
C14_Fresh == C14_Key \in DOMAIN srcs.ai.cache /\ srcs.ai.cache[C14_Key].fresh

\* a call with a fresh entry returns its items and does not call the provider
C14_HitStep ==
    \A g \in AIGoroutines :
        AIReturns(g) /\ C14_Asked /\ C14_Fresh
            => /\ req'.gor[g].st = "done"
               /\ req'.gor[g].out = "ok"
               /\ ~req'.gor[g].called
               /\ req'.gor[g].items = srcs.ai.cache[C14_Key].items
               /\ srcs' = srcs

\* a call without an entry, or with an expired one, calls the provider
C14_MissStep ==
    \A g \in AIGoroutines :
        AIReturns(g) /\ C14_Asked /\ ~C14_Fresh
            => req'.gor[g].st = "calling" /\ req'.gor[g].called

\* the provider's answer is stored under the key of the call, fresh, and
\* no other entry changes
C14_StoreStep ==
    \A g \in AIGoroutines :
        /\ req.gor[g].st = "calling"
        /\ g \in 1..Len(req'.gor)
        /\ req'.gor[g].st = "done"
        /\ req'.gor[g].out = "ok"
        => /\ DOMAIN srcs'.ai.cache = DOMAIN srcs.ai.cache \cup {C14_Key}
           /\ srcs'.ai.cache[C14_Key] = [items |-> req'.gor[g].items, fresh |-> TRUE]
           /\ \A k \in DOMAIN srcs.ai.cache \ {C14_Key} :
                  srcs'.ai.cache[k] = srcs.ai.cache[k]

\* the two caches are apart: a step that changes the engine's cache leaves
\* the source's, and a step that removes entries of the source's cache
\* removes them all and leaves the engine's
C14_ApartStep ==
    /\ engine'.cache # engine.cache => srcs'.ai.cache = srcs.ai.cache
    /\ ~(DOMAIN srcs.ai.cache \subseteq DOMAIN srcs'.ai.cache)
          => srcs'.ai.cache = [k \in {} |-> <<>>] /\ engine' = engine

\* C14: the AI source caches per key (linePrefix, word) for five minutes.
\* After the provider has answered for a key, a Complete of the enabled
\* source with that key within five minutes returns the stored items without
\* calling the provider, and a Complete after the expiry calls it again; the
\* engine's cache is another one: Engine.ClearCache leaves the source's
\* entries, AISource.ClearCache removes them.
C14_AICache ==
    [][C14_HitStep /\ C14_MissStep /\ C14_StoreStep /\ C14_ApartStep]_vars

\* served from the source's cache after the engine's cache was cleared, with
\* an expired entry for another key still in the map
C14_Witness ==
    /\ nreq = MaxAICalls
    /\ \E g \in AIGoroutines :
          /\ req.gor[g].st = "done"
          /\ ~req.gor[g].called
          /\ req.gor[g].items # <<>>
          /\ C14_Fresh
    /\ \E k \in DOMAIN srcs.ai.cache : ~srcs.ai.cache[k].fresh

--------------------------------------------------------------------------
(* Claims about search in the editor. *)

\* the offsets at which q occurs in text, ascending
AllMatches(text, q) ==
    LET hits == {i \in 0..(Len(text) - Len(q)) : Slice(text, i, i + Len(q)) = q}
    IN SortSeq(CHOOSE f \in [1..Cardinality(hits) -> hits] :
                   \A a, b \in 1..Cardinality(hits) : a # b => f[a] # f[b],
               LAMBDA a, b : a < b)

\* the query was edited to a non-empty one: the matches are all its offsets
C15_MatchesStep ==
    editor'.searchQuery # editor.searchQuery /\ editor'.searchQuery # ""
        => editor'.searchMatches = AllMatches(taValue(editor'.ta), editor'.searchQuery)

\* a step of the search prompt that leaves the query and moves: findNext or
\* findPrev
C15_Moved ==
    /\ editor.searchMode
    /\ editor'.searchMode
    /\ editor'.searchQuery = editor.searchQuery
    /\ editor.searchMatches # <<>>
    /\ editor' # editor

\* the current match moves one step, forward or backward, cyclically
C15_CyclicStep ==
    C15_Moved
        => LET n == Len(editor.searchMatches)
           IN /\ editor'.searchMatches = editor.searchMatches
              /\ editor'.searchIndex \in {(editor.searchIndex + 1) % n,
                                          (editor.searchIndex + n - 1) % n}

\* the cursor is on the new current match
C15_CursorStep ==
    C15_Moved
        => getCursorIndex(editor') = editor'.searchMatches[editor'.searchIndex + 1]

\* the list of matches and the cyclic steps, without the cursor
C15_MatchesAndCycle == [][C15_MatchesStep /\ C15_CyclicStep]_vars

\* C15: after every edit of the search query the matches are all the offsets
\* of the non-empty query in the buffer, ascending; findNext and findPrev
\* move the current match one step cyclically and put the cursor on it.
C15_Search == [][C15_MatchesStep /\ C15_CyclicStep /\ C15_CursorStep]_vars

--------------------------------------------------------------------------
(* Claims about indentation and comments. *)

\* the editor after a key
Key(e, key) == Update(e, KeyMsg(key), "", FALSE)

\* the lines that the selection touches
TouchedLines(e) ==
    LET lines == SplitLines(taValue(e.ta))
        r == selectedLines(e)
    IN {lines[i] : i \in {j \in 1..Len(lines) : r.startLine <= j - 1 /\ j - 1 <= r.endLine}}

\* Visual mode with a selection, the keys reaching updateVisual
Selecting(e) ==
    e.mode = ModeVisual /\ e.hasSelection /\ ~e.searchMode /\ ~e.gotoLineMode

\* C16: in Visual mode, for a selection in either direction over lines none
\* of which starts with a single space, indent then outdent restores the
\* text and the offsets of the selection.
C16_IndentOutdent ==
    Selecting(editor) /\ (\A line \in TouchedLines(editor) : outdentWidth(line) # 1)
        => LET e2 == Key(Key(editor, "tab"), "shift+tab")
           IN /\ taValue(e2.ta) = taValue(editor.ta)
              /\ e2.selectionStart = editor.selectionStart
              /\ e2.selectionEnd = editor.selectionEnd

\* the same for the selections made forward, from the anchor to the right
C16_ForwardOnly ==
    /\ Selecting(editor)
    /\ editor.selectionStart <= editor.selectionEnd
    /\ \A line \in TouchedLines(editor) : outdentWidth(line) # 1
    => LET e2 == Key(Key(editor, "tab"), "shift+tab")
       IN /\ taValue(e2.ta) = taValue(editor.ta)
          /\ e2.selectionStart = editor.selectionStart
          /\ e2.selectionEnd = editor.selectionEnd

\* outdent over lines without a leading space leaves the text and the
\* selection
C17_TextAndSelection ==
    Selecting(editor) /\ (\A line \in TouchedLines(editor) : outdentWidth(line) = 0)
        => LET e1 == Key(editor, "shift+tab")
           IN /\ taValue(e1.ta) = taValue(editor.ta)
              /\ e1.selectionStart = editor.selectionStart
              /\ e1.selectionEnd = editor.selectionEnd

\* indent and outdent without a selection change nothing
C17_NoSelection ==
    ~editor.hasSelection
        => indentSelection(editor) = editor /\ outdentSelection(editor) = editor

\* C17: outdent over selected lines without a leading space changes neither
\* the text, the selection, the history nor historyIndex; indent and outdent
\* without a selection change nothing.
C17_OutdentNoOp ==
    /\ C17_TextAndSelection
    /\ C17_NoSelection
    /\ Selecting(editor) /\ (\A line \in TouchedLines(editor) : outdentWidth(line) = 0)
          => LET e1 == Key(editor, "shift+tab")
             IN e1.history = editor.history /\ e1.historyIndex = editor.historyIndex

\* the lines toggleComment works on: the selected ones, else the cursor's
CommentRange(e) ==
    IF e.hasSelection THEN selectedLines(e)
    ELSE [startLine |-> taLine(e.ta), endLine |-> taLine(e.ta)]
CommentLines(e) ==
    LET lines == SplitLines(taValue(e.ta))
        r == CommentRange(e)
    IN {lines[i] : i \in {j \in 1..Len(lines) : r.startLine <= j - 1 /\ j - 1 <= r.endLine}}

\* Normal mode, the keys reaching updateNormal, and a second toggle that
\* works on the lines of the first
TogglesSameLines(e) ==
    /\ e.mode = ModeNormal
    /\ ~e.searchMode
    /\ ~e.gotoLineMode
    /\ CommentRange(Key(e, "ctrl+/")) = CommentRange(e)

\* C18: toggling the line comment twice on the same lines returns the text
\* to the original, whatever the lines hold: commented, commented without a
\* space, indented or empty.
C18_ToggleTwice ==
    TogglesSameLines(editor)
        => taValue(Key(Key(editor, "ctrl+/"), "ctrl+/").ta) = taValue(editor.ta)

\* the same for lines that hold no comment mark
C18_PlainLines ==
    TogglesSameLines(editor) /\ (\A line \in CommentLines(editor) : ~Contains(line, "--"))
        => taValue(Key(Key(editor, "ctrl+/"), "ctrl+/").ta) = taValue(editor.ta)

--------------------------------------------------------------------------
(* Claims about the modes and the selection. *)

\* C19: a selection exists only in Visual mode, or in Insert mode while a
\* selection extended with shift is in progress; never in Normal mode.
C19_SelectionOnlyWhileSelecting ==
    editor.hasSelection => editor.mode \in {ModeVisual, ModeInsert}

mouseDrag(e, msg) ==
    /\ msg.kind = "mouse"
    /\ msg.type = "MouseLeft"
    /\ e.mouseDown
    /\ getIndexFromCoords(e, msg.x, msg.y) \notin {-1, e.mouseStart}

\* the change of mode from m to m2 by the message is one of the claim's
C20_Allowed(e, msg, e2) ==
    LET key == IF msg.kind = "key" THEN msg.key ELSE ""
    IN \/ e.mode = ModeNormal /\ e2.mode = ModeInsert /\ key = "i"
       \/ e.mode = ModeInsert /\ e2.mode = ModeNormal /\ key \in {"esc", "ctrl+["}
       \/ /\ e.mode = ModeNormal /\ e2.mode = ModeVisual /\ key = "v"
          /\ e2.selectionStart = getCursorIndex(e)
          /\ e2.selectionEnd = getCursorIndex(e)
       \/ e.mode = ModeVisual /\ e2.mode = ModeNormal
              /\ key \in {"esc", "ctrl+[", "y", "d", "x"}
       \/ e.mode # ModeVisual /\ e2.mode = ModeVisual /\ key = keySelectAll
       \/ e.mode # ModeVisual /\ e2.mode = ModeVisual /\ mouseDrag(e, msg)

\* the keys of the claim change the mode when they reach the mode's handler
C20_Expected(e, msg, e2) ==
    ReachesMode(e, msg)
        => /\ e.mode = ModeNormal /\ msg.key = "i" => e2.mode = ModeInsert
           /\ e.mode = ModeInsert /\ msg.key \in {"esc", "ctrl+["} => e2.mode = ModeNormal
           /\ e.mode = ModeNormal /\ msg.key = "v" => e2.mode = ModeVisual
           /\ e.mode = ModeVisual /\ msg.key \in {"esc", "ctrl+[", "y", "d", "x"}
                 => e2.mode = ModeNormal
           /\ e.mode # ModeVisual /\ msg.key = keySelectAll => e2.mode = ModeVisual

\* keys that are not among the events of the runs, put to every state
MoreKeys == {"d", "u", "p", "l", "j", "k", "tab", "shift+tab", keyUndo, keyRedo,
             keyCopy, keyPaste, keyWord, "ctrl+h", "shift+f3", "backspace", "left",
             "right", "up", "down", "shift+right", "shift+up", "shift+down", "ctrl+/"}
C20_Events == UpdateEvents \cup {KeyMsg(key) : key \in MoreKeys}

WholeBufferSelected(e) ==
    /\ e.mode = ModeVisual
    /\ e.selectionStart = 0
    /\ e.selectionEnd = Len(taValue(e.ta))
    /\ e.hasSelection

\* the key reaches the handler of the mode: no prompt is open
AtModeKeys(e) == ~e.panicked /\ ~e.searchMode /\ ~e.gotoLineMode

\* C21: from Normal, Insert and Visual mode the select-all key puts the
\* editor in Visual mode with the whole buffer selected.
C21_SelectAll ==
    AtModeKeys(editor) => WholeBufferSelected(Key(editor, keySelectAll))

\* the same from Normal and Insert mode only
C21_FromNormalAndInsert ==
    AtModeKeys(editor) /\ editor.mode # ModeVisual
        => WholeBufferSelected(Key(editor, keySelectAll))

--------------------------------------------------------------------------
(* Claims about yank and cut in Visual mode                                *)

\* the normalized selection (s, e) of an editor, clamped to the buffer
SelLo(e) == Min(Max(Min(e.selectionStart, e.selectionEnd), 0), Len(taValue(e.ta)))
SelHi(e) == Min(Max(Max(e.selectionStart, e.selectionEnd), 0), Len(taValue(e.ta)))
SelText(e) == Slice(taValue(e.ta), SelLo(e), SelHi(e))

InVisual(e) == AtModeKeys(e) /\ e.mode = ModeVisual /\ e.hasSelection

\* the clipboard after the key holds the selected text; for an empty
\* selection a clipboard left as it was is accepted as well
ClipboardHoldsSelection(key) ==
    LET clip2 == UpdateClipboard(editor, KeyMsg(key), clipboard)
    IN \/ clip2 = SelText(editor)
       \/ SelText(editor) = "" /\ clip2 = clipboard

BackInNormal(e) == e.mode = ModeNormal /\ ~e.hasSelection

YankDoes ==
    LET e2 == Key(editor, "y")
    IN /\ ClipboardHoldsSelection("y")
       /\ taValue(e2.ta) = taValue(editor.ta)
       /\ BackInNormal(e2)

CutRemoves(key) ==
    LET e2 == Key(editor, key)
        val == taValue(editor.ta)
    IN /\ ~e2.panicked
       /\ taValue(e2.ta) = Slice(val, 0, SelLo(editor)) \o Slice(val, SelHi(editor), Len(val))
       /\ BackInNormal(e2)

CutDoes(key) ==
    /\ ClipboardHoldsSelection(key)
    /\ CutRemoves(key)
    /\ getCursorIndex(Key(editor, key)) = SelLo(editor)

\* C22: in Visual mode yank writes the normalized selection text to the
\* clipboard, leaves the buffer as it is and returns to Normal mode with no
\* selection; cut writes the same text, removes exactly that range, puts the
\* cursor at the lower end of the selection and returns to Normal mode with
\* no selection; also for an empty selection.
C22_YankAndCut ==
    InVisual(editor) => YankDoes /\ CutDoes("d") /\ CutDoes("x")

\* what does hold for a selection that is not empty: the clipboard, the
\* buffer and the mode, not the cursor
C22_NonEmptySelection ==
    InVisual(editor) /\ SelText(editor) # ""
        => /\ YankDoes
           /\ \A key \in {"d", "x"} : ClipboardHoldsSelection(key) /\ CutRemoves(key)

\* what does hold for an empty selection: the buffer and the mode
C22_EmptySelection ==
    InVisual(editor) /\ SelText(editor) = ""
        => /\ taValue(Key(editor, "y").ta) = taValue(editor.ta)
           /\ BackInNormal(Key(editor, "y"))
           /\ \A key \in {"d", "x"} : CutRemoves(key)

\* the cursor after a cut is at the lower end of the selection
C22_CutCursor ==
    InVisual(editor) => getCursorIndex(Key(editor, "d")) = SelLo(editor)

--------------------------------------------------------------------------
(* Claims about the history around destructive edits                       *)

\* the undo key of a mode that has one
UndoKey(e) == IF e.mode = ModeNormal THEN "u" ELSE keyUndo

\* an edit key is pressed with the clipboard as it is, and undo right after
Edited(key) == Update(editor, KeyMsg(key), clipboard, FALSE)
Undone(key) == Update(Edited(key), KeyMsg(UndoKey(Edited(key))), clipboard, FALSE)

\* the edit changed the text, and the undo brings the old text back
UndoRestores(key) ==
    (~Edited(key).panicked /\ taValue(Edited(key).ta) # taValue(editor.ta))
        => taValue(Undone(key).ta) = taValue(editor.ta)

C23_DeleteChar ==
    AtModeKeys(editor) /\ editor.mode = ModeNormal => UndoRestores("x")

C23_DeleteWord ==
    AtModeKeys(editor) /\ editor.mode = ModeInsert => UndoRestores(keyWord)

C23_Cut ==
    /\ AtModeKeys(editor) /\ editor.mode = ModeVisual
          => UndoRestores("d") /\ UndoRestores("x")
    /\ AtModeKeys(editor) /\ editor.mode = ModeInsert => UndoRestores(keyCut)

C23_Paste ==
    /\ AtModeKeys(editor) /\ editor.mode = ModeNormal /\ ~editor.hasSelection
          => UndoRestores("p") /\ UndoRestores(keyPaste)
    /\ AtModeKeys(editor) /\ editor.mode = ModeInsert /\ ~editor.hasSelection
          => UndoRestores(keyPaste)

C23_PasteOverSelection ==
    /\ AtModeKeys(editor) /\ editor.mode = ModeNormal /\ editor.hasSelection
          => UndoRestores("p") /\ UndoRestores(keyPaste)
    /\ AtModeKeys(editor) /\ editor.mode = ModeInsert /\ editor.hasSelection
          => UndoRestores(keyPaste)

C23_DeleteLine ==
    AtModeKeys(editor) /\ editor.mode = ModeNormal => UndoRestores("ctrl+k")

\* C23: after delete-char in Normal mode, delete-word in Insert mode, cut,
\* paste (also over a selection) and delete-line, whatever was typed before,
\* one undo right after the edit brings back the text as it was before it.
C23_UndoRestoresEdit ==
    /\ C23_DeleteChar
    /\ C23_DeleteWord
    /\ C23_Cut
    /\ C23_Paste
    /\ C23_PasteOverSelection
    /\ C23_DeleteLine

--------------------------------------------------------------------------
(* Claims about offsets out of range                                       *)

\* C24: no sequence of events makes an editor operation fail on an offset
\* out of range, also when the buffer was shortened while a selection
\* recorded earlier is still held.
C24_NoOutOfRange == ~editor.panicked

\* the selection held lies beyond the end of the buffer
StaleSelection(e) ==
    e.hasSelection /\ Min(e.selectionStart, e.selectionEnd) > Len(taValue(e.ta))

\* the operations that read the selection without deleting it clamp it:
\* copy, yank, indent, outdent, toggle-comment and the render do not fail
C24_ReadersClamp ==
    (~editor.panicked /\ StaleSelection(editor))
        => /\ GetSelectedText(editor) = taValue(editor.ta)
           /\ \A key \in {keyCopy, "y", "tab", "shift+tab", "ctrl+/"} :
                 ~Update(editor, KeyMsg(key), clipboard, FALSE).panicked

\* every failure comes from deleting a stale selection
C24_OnlyStaleDelete ==
    [][(~editor.panicked /\ editor'.panicked) => StaleSelection(editor)]_vars

--------------------------------------------------------------------------
(* Engine.Complete called with any cursor.  A slice expression of Go with  *)
(* a bound below 0 or above the length of the string panics.               *)

\* extractWord lowers a cursor beyond the end and nothing else; with a
\* negative cursor its loop does not run and query[start:cursor] panics
extractWordFails(query, cursor0) ==
    LET cursor == IF cursor0 > Len(query) THEN Len(query) ELSE cursor0
    IN cursor < 0

\* buildContext: extractWord, then query[:cursor] with the cursor as given
buildContextFails(query, cursor) ==
    \/ extractWordFails(query, cursor)
    \/ cursor < 0 \/ cursor > Len(query)

CursorQueries == {"", "SELECT * FROM Set", "x\n sel"}
CursorSlack == 2

\* Complete(query, cursor, database, tables) with a cursor from below 0 to
\* beyond the end; a call that panics ends the program.  The context of a
\* failed call only records the arguments.
CursorCompleteStart ==
    /\ req.pc \in {"idle", "done"}
    /\ nreq < MaxRequests
    /\ \E query \in CursorQueries :
          \E cursor \in (0 - CursorSlack)..(Len(query) + CursorSlack) :
              req' = IF buildContextFails(query, cursor)
                     THEN [NoRequest EXCEPT
                              !.pc = "panicked",
                              !.ctx = [@ EXCEPT !.Query = query, !.Cursor = cursor]]
                     ELSE [NoRequest EXCEPT
                              !.pc = "lookup",
                              !.ctx = buildContext(query, cursor, "db", srcs.schema.tables)]
    /\ nreq' = nreq + 1
    /\ UNCHANGED <<engine, heap, reg, srcs, editorVars>>

InitCursor ==
    /\ editor = NewEditor
    /\ clipboard = ""
    /\ nkeys = 0
    /\ popup = NewCompletionPopup
    /\ engine = RegisterAll(<<"keywords", "schema">>).e
    /\ heap = RegisterAll(<<"keywords", "schema">>).h
    /\ reg = NoRegister
    /\ srcs = [NewSources EXCEPT !.schema.tables = <<"users", "settings">>]
    /\ req = NoRequest
    /\ nreq = 0

NextCursor ==
    \/ CursorCompleteStart \/ CacheLookup \/ SnapshotSources \/ Spawn
    \/ SourceRun \/ Join \/ Finish

SpecCursor == InitCursor /\ [][NextCursor]_vars

\* C25: Complete called with a cursor below 0 or beyond the end of the query
\* does not fail; it returns a result as if the cursor were clamped.
C25_CursorClamped == req.pc # "panicked"

\* a call fails only with a cursor outside the query
C25_FailsOnlyOutside ==
    req.pc = "panicked"
        => req.ctx.Cursor < 0 \/ req.ctx.Cursor > Len(req.ctx.Query)

\* a call with a cursor outside the query never gets as far as the lookup
C25_OutsideNeverReturns ==
    (req.ctx.Cursor < 0 \/ req.ctx.Cursor > Len(req.ctx.Query))
        => req.pc = "panicked"

--------------------------------------------------------------------------
(* The go-to-line prompt: a buffer of three lines and an empty one, the    *)
(* prompt empty or holding the largest int or the number after it.         *)

\* the keys that type the string s, one character each
RECURSIVE KeysOf(_)
KeysOf(s) == IF s = "" THEN <<>> ELSE <<SubSeq(s, 1, 1)>> \o KeysOf(SubSeq(s, 2, Len(s)))

GotoBuffers == {"", "a\nbc\nd"}
GotoPrefixes == {<<>>,
                 <<"ctrl+g">> \o KeysOf(MaxInt64Digits),
                 <<"ctrl+g">> \o KeysOf("9223372036854775808")}
GotoKeys == {"ctrl+g", "0", "1", "2", "9", "n", "-", "backspace", "enter", "esc", "k", "l"}

InitGoto == \E b \in GotoBuffers, prefix \in GotoPrefixes : Loaded(b, prefix)
GotoKey == Event({KeyMsg(key) : key \in GotoKeys})
NextGoto == GotoKey
SpecGoto == InitGoto /\ [][NextGoto]_vars

\* the prompt is open
AtGotoPrompt(e) == ~e.panicked /\ e.gotoLineMode

\* a string of digits
AllDigits(s) == \A i \in 1..Len(s) : IsDigit(SubSeq(s, i, i))

\* the input denotes a number n >= 1
DenotesLine(s) == s # "" /\ AllDigits(s) /\ StripZeros(s) # ""

\* the line min(n, number of lines) for such an input, 1-based
TargetLine(e) ==
    LET t == StripZeros(e.gotoLineInput)
        count == Len(SplitLines(taValue(e.ta)))
    IN IF Len(t) > 9 THEN count ELSE Min(AtoiSmall(t), count)

Confirmed(e) == Update(e, KeyMsg("enter"), "", FALSE)

\* the overlay is closed, text and history are as they were
ClosedUntouched(e, e2) ==
    /\ ~e2.gotoLineMode
    /\ e2.gotoLineInput = ""
    /\ taValue(e2.ta) = taValue(e.ta)
    /\ e2.history = e.history
    /\ e2.historyIndex = e.historyIndex

\* the prompt takes digits only
C26_DigitsOnly == AllDigits(editor.gotoLineInput)

\* confirm and cancel close the prompt and leave text and history alone
C26_Closes ==
    AtGotoPrompt(editor)
        => /\ ClosedUntouched(editor, Confirmed(editor))
           /\ ClosedUntouched(editor, Update(editor, KeyMsg("esc"), "", FALSE))

\* an input that denotes no line leaves the cursor where it is
C26_InvalidCancels ==
    AtGotoPrompt(editor) /\ ~DenotesLine(editor.gotoLineInput)
        => Confirmed(editor).ta = editor.ta

\* an input that denotes a line puts the cursor at the start of that line
C26_ReachesLine ==
    AtGotoPrompt(editor) /\ DenotesLine(editor.gotoLineInput)
        => /\ Confirmed(editor).ta.row = TargetLine(editor) - 1
           /\ Confirmed(editor).ta.col = 0

\* the same with the cursor on the first line and a number that is an int
C26_ReachesLineFromTop ==
    (/\ AtGotoPrompt(editor) /\ DenotesLine(editor.gotoLineInput)
     /\ ~AtoiFails(editor.gotoLineInput)
     /\ editor.ta.row = 0)
        => /\ Confirmed(editor).ta.row = TargetLine(editor) - 1
           /\ Confirmed(editor).ta.col = 0

\* C26: the go-to-line prompt takes digits only; confirmed with digits that
\* denote n >= 1, however large, the cursor moves to the start of line
\* min(n, number of lines); confirmed with an empty or invalid input it
\* cancels with the cursor unchanged; in every case text and history are
\* unchanged and the prompt is closed.
C26_GotoLine ==
    /\ C26_DigitsOnly
    /\ C26_Closes
    /\ C26_InvalidCancels
    /\ C26_ReachesLine

--------------------------------------------------------------------------
(* Claims about the mouse                                                  *)

\* the places of the content area the mouse is put to: column, line
MousePoints == (0..2) \X (0..1)

\* the text offset under a place, -1 outside the text
OffsetAt(pt) == getIndexFromCoords(editor, pt[1], pt[2])

\* the left button at a place: a press, or a drag while the button is down
Left(pt) == Update(editor, MouseMsg("MouseLeft", pt[1], pt[2]), clipboard, FALSE)

Pressing(pt) == ~editor.panicked /\ ~editor.mouseDown /\ OffsetAt(pt) # -1
Dragging(pt) == ~editor.panicked /\ editor.mouseDown /\ OffsetAt(pt) # -1

\* a press records its offset, clears the selection, leaves the mode
C27_PressAnchors ==
    \A pt \in MousePoints :
        Pressing(pt) => /\ Left(pt).mouseStart = OffsetAt(pt)
                        /\ Left(pt).mouseDown
                        /\ ~Left(pt).hasSelection
                        /\ Left(pt).mode = editor.mode

\* a press puts the cursor at the pressed offset
C27_PressCursor ==
    \A pt \in MousePoints :
        Pressing(pt) => getCursorIndex(Left(pt)) = OffsetAt(pt)

\* a drag to another offset selects from the press point, in Visual mode
C27_DragSelects ==
    \A pt \in MousePoints :
        Dragging(pt) /\ OffsetAt(pt) # editor.mouseStart
            => /\ Left(pt).mode = ModeVisual
               /\ Left(pt).hasSelection
               /\ Left(pt).selectionStart = editor.mouseStart
               /\ Left(pt).selectionEnd = OffsetAt(pt)

\* a drag to another offset puts the cursor there
C27_DragCursor ==
    \A pt \in MousePoints :
        Dragging(pt) /\ OffsetAt(pt) # editor.mouseStart
            => getCursorIndex(Left(pt)) = OffsetAt(pt)

\* a drag to the press point changes nothing
C27_DragBack ==
    \A pt \in MousePoints :
        Dragging(pt) /\ OffsetAt(pt) = editor.mouseStart => Left(pt) = editor

\* C27: a left press in the content area sets the cursor to the pressed
\* offset p and clears the selection without changing the mode; a drag to
\* an offset q # p switches to Visual mode with selectionStart = p,
\* selectionEnd = q and the cursor at q; a drag back to p starts no
\* selection.
C27_Mouse ==
    /\ C27_PressAnchors
    /\ C27_PressCursor
    /\ C27_DragSelects
    /\ C27_DragCursor
    /\ C27_DragBack

--------------------------------------------------------------------------
(* Claims about accepting the ghost suggestion                             *)

\* the text before the last word of a text
BeforeLastWord(text) == Slice(text, 0, Len(TrimRight(text)) - Len(LastField(text)))

\* a suggestion is pending in Insert mode and extends the last word by a
\* character at least
SuggestionPending(e) ==
    /\ AtModeKeys(e) /\ e.mode = ModeInsert
    /\ e.suggestion # ""
    /\ LastField(taValue(e.ta)) # ""
    /\ Len(e.suggestion) > Len(LastField(taValue(e.ta)))
    /\ HasPrefix(ToUpper(e.suggestion), ToUpper(LastField(taValue(e.ta))))

\* the last word W followed by the suggestion's remainder, lower-cased when
\* W is all lower-case
CompletedWord(e) ==
    LET W == LastField(taValue(e.ta))
        rest == Slice(e.suggestion, Len(W), Len(e.suggestion))
    IN W \o (IF ToLower(W) = W THEN ToLower(rest) ELSE rest)

Accepted(e) == Update(e, KeyMsg("tab"), "", FALSE)

\* the last word is completed in its place, the cursor is right after it
WordCompleted(e) ==
    LET text2 == taValue(Accepted(e).ta)
    IN /\ LastField(text2) = CompletedWord(e)
       /\ BeforeLastWord(text2) = BeforeLastWord(taValue(e.ta))
       /\ getCursorIndex(Accepted(e))
             = Len(BeforeLastWord(taValue(e.ta))) + Len(CompletedWord(e))

\* the suggestion is cleared and the new text is the current history entry
\* (snapshot adds no entry for a text the current entry holds already)
ClearedAndSaved(e) ==
    LET e2 == Accepted(e)
    IN /\ e2.suggestion = ""
       /\ e2.history[e2.historyIndex + 1].Text = taValue(e2.ta)

\* C28: in Insert mode with a pending suggestion that extends the last word
\* W, the accept key completes the last word to W followed by the
\* suggestion's remainder (lower-cased when W is all lower-case), leaves the
\* text before the word as it is, puts the cursor right after the word,
\* clears the suggestion and takes a snapshot; wherever the cursor is and
\* whether or not whitespace follows W.
C28_Accept ==
    SuggestionPending(editor) => WordCompleted(editor) /\ ClearedAndSaved(editor)

\* the same when W ends the buffer, wherever the cursor is
C28_AcceptAtEnd ==
    SuggestionPending(editor) /\ TrimRight(taValue(editor.ta)) = taValue(editor.ta)
        => WordCompleted(editor) /\ ClearedAndSaved(editor)

\* in every case the suggestion is cleared and the new text saved
C28_ClearsAndSaves ==
    SuggestionPending(editor) => ClearedAndSaved(editor)

\* the cursor is not at the end of the buffer when the key is pressed
C28_CursorElsewhere ==
    /\ SuggestionPending(editor)
    /\ TrimRight(taValue(editor.ta)) = taValue(editor.ta)
    /\ getCursorIndex(editor) < Len(taValue(editor.ta))

--------------------------------------------------------------------------
(* Claims about Enter and Space in Insert mode                             *)

Inserting(e) == AtModeKeys(e) /\ e.mode = ModeInsert

\* the line the cursor is on, and that line before and after the cursor
CursorLine(e) == SplitLines(taValue(e.ta))[e.ta.row + 1]
TextBeforeCursor(e) == Slice(taValue(e.ta), 0, getCursorIndex(e))
TextAfterCursor(e) == Slice(taValue(e.ta), getCursorIndex(e), Len(taValue(e.ta)))

\* the history after the key is the history after a snapshot of the state
\* before the key
SnapshotBefore(key) ==
    /\ Key(editor, key).history = snapshot(editor).history
    /\ Key(editor, key).historyIndex = snapshot(editor).historyIndex

\* Enter takes a snapshot of the state before the key
C29_EnterSnapshots == Inserting(editor) => SnapshotBefore("enter")

\* the line Enter creates begins with the leading whitespace of the line
\* the cursor was on
C29_AutoIndent ==
    Inserting(editor)
        => LET lines2 == SplitLines(taValue(Key(editor, "enter").ta))
           IN /\ Len(lines2) = Len(SplitLines(taValue(editor.ta))) + 1
              /\ HasPrefix(lines2[editor.ta.row + 2], LeadingIndent(CursorLine(editor)))

\* Space takes a snapshot and inserts the space
C29_Space ==
    Inserting(editor)
        => /\ SnapshotBefore(" ")
           /\ taValue(Key(editor, " ").ta)
                 = TextBeforeCursor(editor) \o " " \o TextAfterCursor(editor)

\* no other typed character takes a snapshot
C29_OtherChars ==
    Inserting(editor)
        => \A key \in {"n", "a", "Z", "7", "_", ";", "(", "*"} :
              /\ Key(editor, key).history = editor.history
              /\ Key(editor, key).historyIndex = editor.historyIndex
              /\ taValue(Key(editor, key).ta)
                    = TextBeforeCursor(editor) \o key \o TextAfterCursor(editor)

\* what Enter does: the leading whitespace of the line ABOVE the cursor's
\* line, when there is one, goes before the line break
C29_IndentFromLineAbove ==
    Inserting(editor)
        => LET above == IF editor.ta.row > 0
                        THEN LeadingIndent(SplitLines(taValue(editor.ta))[editor.ta.row])
                        ELSE ""
           IN taValue(Key(editor, "enter").ta)
                 = TextBeforeCursor(editor) \o above \o "\n" \o TextAfterCursor(editor)

\* C29: in Insert mode Enter takes a snapshot of the state before the key
\* and creates a new line that begins with the leading whitespace of the
\* line the cursor was on; Space takes a snapshot and inserts the space; no
\* other typed character takes a snapshot.
C29_EnterAndSpace ==
    /\ C29_EnterSnapshots
    /\ C29_AutoIndent
    /\ C29_Space
    /\ C29_OtherChars

--------------------------------------------------------------------------
(* Claims about replace in the search overlay                              *)

\* the overlay is in replace mode with a query that has matches
ReplaceReady(e) ==
    /\ ~e.panicked /\ e.searchMode /\ e.replaceMode
    /\ e.searchQuery # "" /\ Len(e.searchMatches) > 0

\* what a user may press to enter a replace text: up to two keys out of
\* the overlay's keys and a letter
EntryKeys == SearchKeys \cup {"x"}
EntryWays ==
    {<<>>} \cup {<<a>> : a \in EntryKeys} \cup {<<a, b>> : a, b \in EntryKeys}

\* the text is the current history entry, the matches are those of the text
SavedAndRefreshed(e2) ==
    /\ e2.history[e2.historyIndex + 1].Text = taValue(e2.ta)
    /\ e2.searchMatches = AllMatches(taValue(e2.ta), e2.searchQuery)
    /\ e2.searchIndex = 0 \/ e2.searchIndex < Len(e2.searchMatches)

\* replace-current-match: old[:m] + r + old[m+len(q):]
ReplacesCurrent(e) ==
    LET e2 == Update(e, KeyMsg("enter"), "", FALSE)
        m == e.searchMatches[e.searchIndex + 1]
        old == taValue(e.ta)
    IN /\ taValue(e2.ta) = Slice(old, 0, m) \o e.replaceQuery
                            \o Slice(old, m + Len(e.searchQuery), Len(old))
       /\ SavedAndRefreshed(e2)

\* replace-all: every occurrence of q replaced by r
ReplacesEvery(e) ==
    LET e2 == Update(e, KeyMsg("ctrl+enter"), "", FALSE)
    IN /\ taValue(e2.ta) = ReplaceAll(taValue(e.ta), e.searchQuery, e.replaceQuery)
       /\ SavedAndRefreshed(e2)

\* C30: replace works through the search overlay: in replace mode with a
\* query q the user enters a replace text r; replace-current-match then
\* turns the buffer into old[:m] + r + old[m+len(q):] for the current match
\* offset m and replace-all replaces every occurrence of q by r, each with a
\* snapshot and the match list recomputed.
C30_Replace ==
    ReplaceReady(editor)
        => \E way \in EntryWays :
              LET e1 == Typed(editor, way)
              IN /\ ReplaceReady(e1)
                 /\ e1.searchQuery = editor.searchQuery
                 /\ taValue(e1.ta) = taValue(editor.ta)
                 /\ e1.replaceQuery # ""
                 /\ ReplacesCurrent(e1)
                 /\ ReplacesEvery(e1)

\* no key gives the overlay a replace text
C30_NoReplaceText == editor.replaceQuery = ""

\* while the overlay is open no key changes the buffer
C30_OverlayKeepsText ==
    [][editor.searchMode => taValue(editor'.ta) = taValue(editor.ta)]_vars

\* doReplace and replaceAll, given a replace text, do what is claimed
C30_WithReplaceText ==
    ReplaceReady(editor)
        => LET e1 == [editor EXCEPT !.replaceQuery = "xy"]
           IN ReplacesCurrent(e1) /\ ReplacesEvery(e1)

--------------------------------------------------------------------------
(* Claims about clipboard failures                                         *)

\* the tea.Cmd Update returns with the editor for a copy, cut or paste key:
\* copyToClipboard, pasteFromClipboard and cutToClipboard return nothing,
\* the handlers return nil or the cmd variable that was never assigned
clipboardCmd(e, key) == "nil"

\* the keys of a mode that copy, cut or paste
CopyKeys(e) ==
    CASE e.mode = ModeVisual -> {"y"}
      [] e.mode = ModeInsert -> {keyCopy}
      [] OTHER -> {}
CutKeys(e) ==
    CASE e.mode = ModeVisual -> {"d", "x"}
      [] e.mode = ModeInsert -> {keyCut}
      [] OTHER -> {}
PasteKeys(e) ==
    CASE e.mode = ModeNormal -> {"p", keyPaste}
      [] e.mode = ModeInsert -> {keyPaste}
      [] OTHER -> {}

\* what the caller of Update gets back
Returned(key, clipText, readErr) ==
    [editor |-> Update(editor, KeyMsg(key), clipText, readErr),
     cmd |-> clipboardCmd(editor, key)]

\* a failed read shows in what paste gives back: it is not what a paste
\* from an empty clipboard gives back
PasteReports(key) == Returned(key, "", TRUE) # Returned(key, "", FALSE)

\* a failed write shows in what copy or cut gives back.  The editor they
\* give back is computed without the result of clipboard.WriteAll, which
\* is dropped, so only the command could show it
WriteReports(key) == Returned(key, clipboard, FALSE).cmd # "nil"

\* a failed paste leaves the editor as it is
C31_FailedPasteKeeps ==
    AtModeKeys(editor)
        => \A key \in PasteKeys(editor) :
              Update(editor, KeyMsg(key), clipboard, TRUE) = editor

\* C31: when the clipboard fails to read or write, copy, cut and paste
\* report the failure to their caller; a failed paste leaves buffer and
\* history unchanged and the editor goes on.
C31_ClipboardFailures ==
    AtModeKeys(editor)
        => /\ \A key \in PasteKeys(editor) : PasteReports(key)
           /\ \A key \in CopyKeys(editor) \cup CutKeys(editor) :
                 editor.hasSelection /\ GetSelectedText(editor) # ""
                     => WriteReports(key)
           /\ \A key \in PasteKeys(editor) :
                 Update(editor, KeyMsg(key), clipboard, TRUE) = editor

\* copy and cut alone report a failed write
C31_WriteReported ==
    AtModeKeys(editor)
        => \A key \in CopyKeys(editor) \cup CutKeys(editor) :
              editor.hasSelection /\ GetSelectedText(editor) # ""
                  => WriteReports(key)

--------------------------------------------------------------------------
(* The keyword source behind Engine.Complete: queries that end in a word   *)
(* being typed, at the start of a statement and after each kind of         *)
(* statement keyword.                                                      *)

KeywordQueries ==
    {"", "SEL", "select as", "select asc", "SELECT * FROM r", "update t set a",
     "delete f", "CREATE TABLE t (x in", "alter table t add c te", "drop "}

\* Complete(query, len(query), database, tables)
KeywordCompleteStart ==
    /\ req.pc \in {"idle", "done"}
    /\ nreq < MaxRequests
    /\ \E query \in KeywordQueries :
          req' = [NoRequest EXCEPT
                     !.pc = "lookup",
                     !.ctx = buildContext(query, Len(query), "db", srcs.schema.tables)]
    /\ nreq' = nreq + 1
    /\ UNCHANGED <<engine, heap, reg, srcs, editorVars>>

InitKeywords == InitCursor

NextKeywords ==
    \/ KeywordCompleteStart \/ CacheLookup \/ SnapshotSources \/ Spawn
    \/ SourceRun \/ Join \/ Finish

SpecKeywords == InitKeywords /\ [][NextKeywords]_vars

\* the goroutines of the running call whose keyword source has returned
KeywordsDone == {g \in 1..Len(req.gor) : req.gor[g].src = "keywords" /\ req.gor[g].st = "done"}

\* the items the keyword source returned, of one kind
KeywordsReturned(kind) ==
    UNION {{req.gor[g].items[i] : i \in {j \in 1..Len(req.gor[g].items) :
                                           req.gor[g].items[j].Kind = kind}} :
           g \in KeywordsDone}

\* the labels of the keyword items the source returned
KeywordsOffered == {it.Label : it \in KeywordsReturned(KindKeyword)}

\* C32 as stated: a keyword item carries ScoreKeyword + BoostKeyword exactly
\* when the current word is not empty and the keyword is a case-insensitive
\* prefix of it; every other keyword item carries ScoreKeyword and every
\* function item ScoreFunction.
C32_BoostPrefixOfWord ==
    /\ \A it \in KeywordsReturned(KindKeyword) :
          it.Score = IF req.ctx.Word # "" /\ HasPrefix(ToLower(req.ctx.Word), ToLower(it.Label))
                     THEN ScoreKeyword + BoostKeyword ELSE ScoreKeyword
    /\ \A it \in KeywordsReturned(KindFunction) : it.Score = ScoreFunction

\* C32, amended: a keyword item carries ScoreKeyword + BoostKeyword exactly
\* when the current word is not empty and is a case-insensitive prefix of the
\* keyword (the keyword starts with the word); every other keyword item
\* carries ScoreKeyword and every function item ScoreFunction.
C32_BoostStartsWithWord ==
    /\ \A it \in KeywordsReturned(KindKeyword) :
          it.Score = IF req.ctx.Word # "" /\ HasPrefix(ToLower(it.Label), ToLower(req.ctx.Word))
                     THEN ScoreKeyword + BoostKeyword ELSE ScoreKeyword
    /\ \A it \in KeywordsReturned(KindFunction) : it.Score = ScoreFunction

\* the word "as" typed after SELECT: AS and ASC are boosted, the other
\* keywords are not, and a function that starts with the word is not either
C32_Witness ==
    /\ req.ctx.Word = "as"
    /\ \E a, b, c \in KeywordsReturned(KindKeyword) :
          /\ a.Label = "AS" /\ a.Score = ScoreKeyword + BoostKeyword
          /\ b.Label = "ASC" /\ b.Score = ScoreKeyword + BoostKeyword
          /\ c.Label = "FROM" /\ c.Score = ScoreKeyword
    /\ \E f \in KeywordsReturned(KindFunction) : f.Label = "AVG()"

\* a function whose name starts with the word keeps the function score
C32_FunctionsKeepBase ==
    \A f \in KeywordsReturned(KindFunction) : f.Score = ScoreFunction

\* the elements of a sequence
Range(seq) == {seq[i] : i \in 1..Len(seq)}

\* the keyword source has returned in the running call
KeywordsCalled == KeywordsDone # {}

\* the line holds nothing but the word being typed
FirstWordTyped == req.ctx.Word # "" /\ req.ctx.LinePrefix = ToUpper(req.ctx.Word)

StartsWithAny(linePrefix, words) == \E w \in words : HasPrefix(linePrefix, w)

\* every function is offered, as NAME()
FunctionsOffered ==
    {f.Label : f \in KeywordsReturned(KindFunction)} = {fn \o "()" : fn \in Range(kwFunctions)}

\* C33: the keyword source offers the start-of-statement keywords when the
\* line prefix is empty or is the first word being typed, the post-SELECT
\* keywords when the line prefix starts with SELECT, UPDATE or DELETE, the
\* type names when it starts with CREATE or ALTER, and the functions always.
C33_Categories ==
    KeywordsCalled =>
        /\ (req.ctx.LinePrefix = "" \/ FirstWordTyped) => KeywordsOffered = Range(kwStart)
        /\ StartsWithAny(req.ctx.LinePrefix, {"SELECT", "UPDATE", "DELETE"})
              => KeywordsOffered = Range(kwSelect)
        /\ StartsWithAny(req.ctx.LinePrefix, {"CREATE", "ALTER"})
              => KeywordsOffered = Range(kwTypes)
        /\ FunctionsOffered

\* the same without the first word being typed: this much holds
C33_CategoriesOfFinishedWords ==
    KeywordsCalled =>
        /\ req.ctx.LinePrefix = "" => KeywordsOffered = Range(kwStart)
        /\ StartsWithAny(req.ctx.LinePrefix, {"SELECT", "UPDATE", "DELETE"})
              => KeywordsOffered = Range(kwSelect)
        /\ StartsWithAny(req.ctx.LinePrefix, {"CREATE", "ALTER"})
              => KeywordsOffered = Range(kwTypes)
        /\ FunctionsOffered

\* a first word that is not yet SELECT, UPDATE, DELETE, CREATE or ALTER is
\* offered the post-SELECT keywords, and so is every other line prefix
C33_FirstWordGetsSelectKeywords ==
    (KeywordsCalled /\ req.ctx.LinePrefix # ""
        /\ ~StartsWithAny(req.ctx.LinePrefix, {"SELECT", "UPDATE", "DELETE", "CREATE", "ALTER"}))
        => KeywordsOffered = Range(kwSelect)

\* "SEL" typed on an empty line is not offered SELECT
C33_SelNotOfferedSelect ==
    (KeywordsCalled /\ req.ctx.Query = "SEL") => "SELECT" \notin KeywordsOffered

--------------------------------------------------------------------------
(* The order of the list Engine.Complete returns.                          *)

\* the running call has returned a list it computed itself
ListComputed == req.pc = "done" /\ ~req.hit

\* the merged items after the filter by the word, with its bonuses
Candidates ==
    IF req.ctx.Word # "" THEN filterItems(req.allItems, req.ctx.Word) ELSE req.allItems

\* C34: the list Engine.Complete returns is ordered by score alone, highest
\* first, whatever the priorities of the sources: an item never stands before
\* one of higher score, no item left out by the limit has a higher score than
\* one that is returned, and so a starts-with match of the keyword source
\* stands before a contains-only match of the schema source.
C34_OrderByScoreOnly ==
    ListComputed =>
        /\ \A i, j \in 1..Len(req.result) : i < j => req.result[i].Score >= req.result[j].Score
        /\ \A c \in Range(Candidates), r \in Range(req.result) :
              c.Score > r.Score => c \in Range(req.result)
        /\ \A i, j \in 1..Len(req.result) :
              (/\ req.result[i].Source = "schema"
               /\ req.result[j].Source = "keywords"
               /\ req.result[j].Score > req.result[i].Score) => j < i

\* the word "r" after FROM: the keyword RIGHT, at 40 + 30 + 100, stands before
\* the table users, at 90 + 50, of the source of higher priority
C34_Witness ==
    /\ ListComputed
    /\ req.ctx.Word = "r"
    /\ Priority("keywords") < Priority("schema")
    /\ \E i, j \in 1..Len(req.result) :
          /\ i < j
          /\ req.result[i].Label = "RIGHT" /\ req.result[i].Source = "keywords"
          /\ req.result[i].Score = ScoreKeyword + BoostKeyword + BonusPrefix
          /\ req.result[j].Label = "users" /\ req.result[j].Source = "schema"
          /\ req.result[j].Score = ScoreTable + BonusContains

\* the limit leaves items out: the list holds MaxResults items of more
\* candidates
C34_LimitApplies == ListComputed /\ Len(Candidates) > MaxResults /\ Len(req.result) = MaxResults

--------------------------------------------------------------------------
(* Engine.Complete and the order in which its goroutines return.           *)

\* the items of the goroutines that returned without an error, in the order
\* in which the goroutines were started
RECURSIVE ItemsInStartOrder(_)
ItemsInStartOrder(gor) ==
    IF gor = <<>> THEN <<>>
    ELSE ItemsInStartOrder(SubSeq(gor, 1, Len(gor) - 1))
            \o (IF gor[Len(gor)].out = "ok" THEN gor[Len(gor)].items ELSE <<>>)

\* a history of 21 queries: twenty that do not start with SELECT, run after
\* "select x from t".  For the line "select x" the history source returns
\* that query with 60 - 20, and the filter adds 50 for a word it contains:
\* the score of a keyword that contains the word, 40 + 50.
TiedHistory == [i \in 1..20 |-> ExecutedQuery(21 - i)] \o <<"select x from t">>
TieQueries == {"", "select x", "select ma"}

TieCompleteStart ==
    /\ req.pc \in {"idle", "done"}
    /\ nreq < MaxRequests
    /\ \E query \in TieQueries :
          req' = [NoRequest EXCEPT
                     !.pc = "lookup",
                     !.ctx = buildContext(query, Len(query), "db", srcs.schema.tables)]
    /\ nreq' = nreq + 1
    /\ UNCHANGED <<engine, heap, reg, srcs, editorVars>>

InitTies ==
    /\ editor = NewEditor
    /\ clipboard = ""
    /\ nkeys = 0
    /\ popup = NewCompletionPopup
    /\ engine = RegisterAll(<<"keywords", "schema", "history">>).e
    /\ heap = RegisterAll(<<"keywords", "schema", "history">>).h
    /\ reg = NoRegister
    /\ srcs = [NewSources EXCEPT !.schema.tables = <<"users", "settings">>,
                                 !.history = TiedHistory]
    /\ req = NoRequest
    /\ nreq = 0

NextTies ==
    \/ TieCompleteStart \/ CacheLookup \/ SnapshotSources \/ Spawn
    \/ SourceRun \/ Join \/ Finish

SpecTies == InitTies /\ [][NextTies]_vars

\* C35: the list Engine.Complete returns is fixed by the context and by what
\* the sources returned: it is the list computed from the sources' items
\* taken in the order of the sources, whatever the order in which the
\* goroutines appended them.
C35_SameUnderEveryInterleaving ==
    ListComputed => req.result = finishComplete(ItemsInStartOrder(req.gor), req.ctx.Word)

\* the items returned and their scores are fixed; only the places of items
\* of equal score, and which of them the limit keeps, follow the goroutines
C35_SameScores ==
    ListComputed =>
        [i \in 1..Len(req.result) |-> req.result[i].Score]
            = [i \in 1..Len(req.result) |->
                  finishComplete(ItemsInStartOrder(req.gor), req.ctx.Word)[i].Score]

\* the list differs from the one of the start order only among equal scores
C35_DiffersOnlyAmongTies ==
    ListComputed =>
        LET inOrder == finishComplete(ItemsInStartOrder(req.gor), req.ctx.Word)
        IN /\ Len(inOrder) = Len(req.result)
           /\ \A i \in 1..Len(req.result) :
                 req.result[i] # inOrder[i] => req.result[i].Score = inOrder[i].Score

\* two items of different sources and equal score stand in the list in the
\* order in which their goroutines returned: for "select x" the keyword
\* EXCEPT and the query of the history, both at 90, in either order
C35_KeywordFirst ==
    /\ ListComputed /\ req.ctx.Query = "select x"
    /\ Len(req.result) = 3
    /\ req.result[1].Source = "keywords" /\ req.result[2].Source = "history"
    /\ req.result[1].Score = req.result[2].Score

C35_HistoryFirst ==
    /\ ListComputed /\ req.ctx.Query = "select x"
    /\ Len(req.result) = 3
    /\ req.result[1].Source = "history" /\ req.result[2].Source = "keywords"
    /\ req.result[1].Score = req.result[2].Score

--------------------------------------------------------------------------
(* The release of the mouse button.  handleMouse returns the editor as it  *)
(* is for an event above or below the content area and for one below the   *)
(* last line of the text, before it looks at the type of the event; row -1 *)
(* stands for the rows above the content area.                             *)

ReleasePlaces == (0..2) \X (-1..2)

\* the button released at a place
Release(e, pt) == Update(e, MouseMsg("MouseRelease", pt[1], pt[2]), clipboard, FALSE)

\* the left button at a place, after something else
LeftAfter(e, pt) == Update(e, MouseMsg("MouseLeft", pt[1], pt[2]), clipboard, FALSE)

\* the event is a fresh press at the offset idx: it records the offset,
\* clears the selection and leaves the mode
FreshPress(before, after, idx) ==
    /\ after.mouseDown /\ after.mouseStart = idx
    /\ ~after.hasSelection
    /\ after.mode = before.mode

\* C36: after a release at any place, on the text or off it, mouseDown is
\* false, and the next left button event on the text is a fresh press.
C36_ReleaseEndsDrag ==
    ~editor.panicked =>
        \A pt \in ReleasePlaces :
            /\ ~Release(editor, pt).mouseDown
            /\ \A q \in MousePoints :
                  OffsetAt(q) # -1
                      => FreshPress(Release(editor, pt),
                                    LeftAfter(Release(editor, pt), q), OffsetAt(q))

\* a release on the text ends the drag, and the next left button event on
\* the text is a fresh press
C36_ReleaseOnText ==
    ~editor.panicked =>
        \A pt \in ReleasePlaces :
            OffsetAt(pt) # -1 =>
                /\ ~Release(editor, pt).mouseDown
                /\ \A q \in MousePoints :
                      OffsetAt(q) # -1
                          => FreshPress(Release(editor, pt),
                                        LeftAfter(Release(editor, pt), q), OffsetAt(q))

\* a release off the text changes nothing: the button stays down for the
\* editor
C36_ReleaseOffTextIgnored ==
    ~editor.panicked =>
        \A pt \in ReleasePlaces : OffsetAt(pt) = -1 => Release(editor, pt) = editor

\* after a press and a release off the text, the left button at another
\* offset selects from the old press point, in Visual mode
C36_StaleDrag ==
    (~editor.panicked /\ editor.mouseDown) =>
        \A pt \in ReleasePlaces, q \in MousePoints :
            (OffsetAt(pt) = -1 /\ OffsetAt(q) \notin {-1, editor.mouseStart}) =>
                LET after == LeftAfter(Release(editor, pt), q)
                IN /\ after.mode = ModeVisual
                   /\ after.hasSelection
                   /\ after.selectionStart = editor.mouseStart
                   /\ after.selectionEnd = OffsetAt(q)

\* the button is down and the text has places to drag to
C36_ButtonDown ==
    /\ ~editor.panicked /\ editor.mouseDown
    /\ \E q \in MousePoints : OffsetAt(q) \notin {-1, editor.mouseStart}

--------------------------------------------------------------------------
(* Find next and find previous after the search prompt was closed and the  *)
(* buffer edited: f3 and shift+f3 work in every mode.                      *)

FindBuffers == {"ab ab", "ab\nab"}
FindPrefixes == {<<>>, <<"ctrl+f", "a", "esc">>}
FindKeys == {"ctrl+f", "a", "f3", "shift+f3", "enter", "esc", "h", "x", "i", "backspace"}

InitFind == \E b \in FindBuffers, prefix \in FindPrefixes : Loaded(b, prefix)
FindKey == Event({KeyMsg(key) : key \in FindKeys})
NextFind == FindKey
SpecFind == InitFind /\ [][NextFind]_vars

\* the search query occurs in the buffer at the offset
OccursAt(e, offset) ==
    /\ offset + Len(e.searchQuery) <= Len(taValue(e.ta))
    /\ Slice(taValue(e.ta), offset, offset + Len(e.searchQuery)) = e.searchQuery

\* the stored matches are the offsets of the query in the buffer as it is
MatchListAgrees(e) ==
    e.searchMatches = IF e.searchQuery = "" THEN <<>>
                      ELSE AllMatches(taValue(e.ta), e.searchQuery)

\* the index of the current match is one of the list
MatchIndexValid(e) ==
    e.searchMatches # <<>> => e.searchIndex \in 0..(Len(e.searchMatches) - 1)

\* f3 or shift+f3 moved the cursor
FindMoved(key) == getCursorIndex(Key(editor, key)) # getCursorIndex(editor)

\* C37: whenever f3 or shift+f3 moves the cursor, inside the search prompt
\* or outside it, the cursor lands on an offset at which the query occurs in
\* the buffer; the stored matches are the offsets of the query in the buffer
\* as it is, and the index of the current match is valid.
C37_FindLandsOnMatch ==
    (~editor.panicked /\ ~editor.gotoLineMode) =>
        /\ \A key \in {"f3", "shift+f3"} :
              FindMoved(key) => OccursAt(Key(editor, key), getCursorIndex(Key(editor, key)))
        /\ MatchListAgrees(editor)
        /\ MatchIndexValid(editor)

\* inside the search prompt the stored matches agree with the buffer, and
\* the index is valid everywhere
C37_AgreesInPrompt ==
    ~editor.panicked =>
        /\ editor.searchMode => MatchListAgrees(editor)
        /\ MatchIndexValid(editor)

\* on a buffer of one line, inside the prompt, f3 and shift+f3 land on an
\* occurrence
C37_LandsInPromptOneLine ==
    (~editor.panicked /\ editor.searchMode /\ Len(SplitLines(taValue(editor.ta))) = 1) =>
        \A key \in {"f3", "shift+f3"} :
            FindMoved(key) => OccursAt(Key(editor, key), getCursorIndex(Key(editor, key)))

\* outside the prompt, on a buffer of one line edited since the search, the
\* stored matches are stale and f3 puts the cursor where the query is not
C37_StaleMatch ==
    /\ ~editor.panicked /\ ~editor.searchMode /\ ~editor.gotoLineMode
    /\ Len(SplitLines(taValue(editor.ta))) = 1
    /\ ~MatchListAgrees(editor)
    /\ FindMoved("f3")
    /\ ~OccursAt(Key(editor, "f3"), getCursorIndex(Key(editor, "f3")))

--------------------------------------------------------------------------
(* The search, replace and go-to-line prompts against the keys of the      *)
(* modes: prompts opened in Normal, Visual and Insert mode, with and       *)
(* without a selection.                                                    *)

OverlayBuffers == {"ab\ncd", "a1 a1"}
OverlayKeys == {"ctrl+f", "ctrl+h", "ctrl+g", "esc", "enter", "ctrl+enter", "a", "1",
                "v", "i", "l", "x", "backspace", "f3"}

InitOverlay == \E b \in OverlayBuffers : Loaded(b, <<>>)
OverlayKey == Event({KeyMsg(key) : key \in OverlayKeys})
NextOverlay == OverlayKey
SpecOverlay == InitOverlay /\ [][NextOverlay]_vars

\* a prompt is open
OverlayActive(e) == e.gotoLineMode \/ e.searchMode

\* every key the model knows
AllKeys ==
    OverlayKeys \cup NormalKeys \cup VisualKeys \cup InsertKeys \cup SearchKeys
        \cup GotoKeys \cup UpdateKeys \cup FindKeys

\* the key is a replace action of the replace prompt
ReplaceAction(e, key) == e.searchMode /\ e.replaceMode /\ key \in {"enter", "ctrl+enter"}

\* the prompt took the key: mode and selection are as before, and so is the
\* text unless the key is a replace action
ConsumedByOverlay(e, key, e2) ==
    /\ ~e2.panicked
    /\ e2.mode = e.mode
    /\ e2.hasSelection = e.hasSelection
    /\ e2.selectionStart = e.selectionStart
    /\ e2.selectionEnd = e.selectionEnd
    /\ ReplaceAction(e, key) \/ taValue(e2.ta) = taValue(e.ta)

\* C38: the go-to-line prompt and the search prompt are never open together,
\* replaceMode implies searchMode, and while a prompt is open every key goes
\* to it: mode and selection stay as they are, and so does the text unless
\* the key is a replace action.
C38_OverlaysExclusive ==
    ~editor.panicked =>
        /\ ~(editor.gotoLineMode /\ editor.searchMode)
        /\ editor.replaceMode => editor.searchMode
        /\ OverlayActive(editor) =>
              \A key \in AllKeys, clipErr \in BOOLEAN :
                  ConsumedByOverlay(editor, key,
                                    Update(editor, KeyMsg(key), clipboard, clipErr))

\* the replace prompt open in Visual mode over a selection, with matches
C38_Witness ==
    /\ ~editor.panicked
    /\ editor.searchMode /\ editor.replaceMode
    /\ editor.mode = ModeVisual /\ editor.hasSelection
    /\ editor.searchMatches # <<>>

\* the go-to-line prompt open in Insert mode with a line number typed
C38_GotoInInsert ==
    /\ ~editor.panicked
    /\ editor.gotoLineMode /\ editor.gotoLineInput # ""
    /\ editor.mode = ModeInsert

\* no key changes the text while a prompt is open, a replace action
\* included: the replace text is empty
C38_TextKept ==
    (~editor.panicked /\ OverlayActive(editor)) =>
        \A key \in AllKeys :
            taValue(Update(editor, KeyMsg(key), clipboard, FALSE).ta) = taValue(editor.ta)

--------------------------------------------------------------------------
(* The AI source between its call of the provider and its return: the      *)
(* select takes the provider's result or the end of the three seconds.     *)

\* the goroutine g returns from the provider call in this step
SelectReturns(g) ==
    /\ g <= Len(req'.gor)
    /\ req.gor[g].src = "ai" /\ req.gor[g].st = "calling"
    /\ req'.gor[g].st = "done"

\* the call gave no items and left the cache of the AI source alone
AINothing(g) == req'.gor[g].items = <<>> /\ srcs'.ai.cache = srcs.ai.cache

\* the three seconds were over when the goroutine returned
AIDeadlineOver(g) == req.gor[g].elapsed >= AITimeout

\* a return with an error, with the deadline, or with a response once the
\* three seconds are over
C39_OnlyBeforeDeadlineStep ==
    \A g \in 1..Len(req.gor) :
        (SelectReturns(g) /\ (req'.gor[g].out # "ok" \/ AIDeadlineOver(g))) => AINothing(g)

\* C39: a call that ends with an error of the provider, with the deadline, or
\* with a response once the three seconds are over gives no items and leaves
\* the cache of the AI source unchanged.
C39_OnlyBeforeDeadline == [][C39_OnlyBeforeDeadlineStep]_vars

\* a call that ends with an error or with the deadline gives no items and
\* leaves the cache unchanged
C39_FailureStep ==
    \A g \in 1..Len(req.gor) :
        (SelectReturns(g) /\ req'.gor[g].out # "ok") => AINothing(g)

\* the cache gets an entry only in the step in which the select takes a
\* response
C39_StoreStep ==
    (\E k \in DOMAIN srcs'.ai.cache :
        k \notin DOMAIN srcs.ai.cache \/ srcs'.ai.cache[k].items # srcs.ai.cache[k].items)
        => \E g \in 1..Len(req.gor) : SelectReturns(g) /\ req'.gor[g].out = "ok"

C39_FailuresKeepCache == [][C39_FailureStep /\ C39_StoreStep]_vars

\* after a call that asked the provider and ended with an error or with the
\* deadline, the cache has no entry in force for its key: the next call with
\* the key asks the provider again
C39_AsksAgain ==
    \A g \in 1..Len(req.gor) :
        (/\ req.gor[g].src = "ai" /\ req.gor[g].called
         /\ req.gor[g].st = "done" /\ req.gor[g].out \in {"error", "deadline"})
            => ~aiCached(srcs.ai, aiCacheKey(req.ctx))

\* the select took a response when the three seconds were over, and the
\* response is in the cache
C39_TakenAtDeadline ==
    \E g \in 1..Len(req.gor) :
        /\ req.gor[g].src = "ai" /\ req.gor[g].st = "done" /\ req.gor[g].out = "ok"
        /\ req.gor[g].elapsed = AITimeout
        /\ req.gor[g].items # <<>>
        /\ aiCached(srcs.ai, aiCacheKey(req.ctx))

==========================================================================
